---- MODULE Spec2Model ----
(***************************************************************************)
(* Model of the azuki conversion server: the SKK dictionary lookups        *)
(* (dictionary.rs), the kana-kanji Converter (converter.rs), the request   *)
(* handler (handler.rs), the message framing (protocol.rs) and the serving *)
(* loop (main.rs).                                                         *)
(*                                                                         *)
(* Strings are sequences of glyphs.  A glyph is a TLA+ string naming one   *)
(* character: kana are written in romaji ("ka" is one hiragana), kanji are *)
(* "K1", "K2", ...  Character counts (chars().count()) are Len.            *)
(* Option<T> is a sequence of at most one element: None == <<>>.           *)
(***************************************************************************)
EXTENDS Integers, Sequences, FiniteSets, TLC

\* ------------------------------------------------------------------ bounds
MaxLen == 4        \* longest reading, in characters
MaxSegs == 3       \* longest caller-supplied segment list
MaxSeq == 1        \* largest request sequence number
MaxFrames == 2     \* most messages written to one pipe

\* ------------------------------------------------------------ value spaces
Kana == {"ka", "ku"}

None == <<>>
Some(x) == <<x>>
IsSome(o) == o # <<>>
Unwrap(o) == o[1]

RECURSIVE StringsUpTo(_)
StringsUpTo(n) ==
    IF n = 0 THEN {<<>>}
    ELSE LET S == StringsUpTo(n - 1)
         IN  S \cup {Append(s, c) : s \in {t \in S : Len(t) = n - 1}, c \in Kana}

Readings == StringsUpTo(MaxLen)

\* The readings tried with caller-supplied lists of any shape
ShortReadings == StringsUpTo(MaxLen - 1)

\* Entries a dictionary file may hold in its okuri-nasi section: reading ->
\* ordered candidates. The keys nest, so that several match at one position.
\* "ka" lists its own reading first, "kaku" lists it in the middle, "kakuka"
\* does not list it.
NasiPool ==
    (<<"ka">> :> << <<"ka">>, <<"K1">> >>) @@
    (<<"ka", "ku">> :> << <<"K2">>, <<"ka", "ku">>, <<"K1", "ku">> >>) @@
    (<<"ka", "ku", "ka">> :> << <<"K4">>, <<"K2", "K1">> >>)

Restrict(f, S) == [k \in S |-> f[k]]

\* Dictionary { okuri_nasi, okuri_ari }: every selection of pool entries,
\* the empty dictionary (Dictionary::new()) included.
Dictionaries ==
    {[okuri_nasi |-> Restrict(NasiPool, S), okuri_ari |-> <<>>] :
        S \in SUBSET (DOMAIN NasiPool)}

\* Converter.dictionary: Option<Dictionary> as load_dictionary() leaves it.
DictionaryStates == {None} \cup {Some(d) : d \in Dictionaries}

\* No dictionary, the empty one and the fullest one.
FewDictionaryStates ==
    {None, Some([okuri_nasi |-> <<>>, okuri_ari |-> <<>>]),
     Some([okuri_nasi |-> NasiPool, okuri_ari |-> <<>>])}

\* ------------------------------------------------------------ dictionary.rs
\* Dictionary::lookup: the okuri-nasi entry, if any.
lookup(dict, reading) ==
    IF reading \in DOMAIN dict.okuri_nasi
    THEN Some(dict.okuri_nasi[reading])
    ELSE None

Contains(list, x) == \E i \in 1..Len(list) : list[i] = x

\* Faulty variant of lookup_with_fallback (sensitivity of C30): an entry is
\* returned as it is, without the reading as a last resort.
lookup_with_fallback_entry_only(dict, reading) ==
    IF reading \in DOMAIN dict.okuri_nasi
    THEN dict.okuri_nasi[reading]
    ELSE <<reading>>

\* Dictionary::lookup_with_fallback
lookup_with_fallback(dict, reading) ==
    IF reading \in DOMAIN dict.okuri_nasi
    THEN LET result == dict.okuri_nasi[reading]
         IN  IF ~Contains(result, reading) THEN Append(result, reading) ELSE result
    ELSE <<reading>>

\* hiragana_to_okuri_symbol: the consonant of the kana's row, a vowel itself,
\* nothing for a character that is not hiragana ("x").
hiragana_to_okuri_symbol(c) ==
    IF c \in {"a"} THEN Some(c)
    ELSE IF c \in {"ka", "ku"} THEN Some("k")
    ELSE None

\* Dictionary::lookup_okuri_ari: the kanji stems under stem + okuri symbol
lookup_okuri_ari(dict, stem, okuri_char) ==
    LET okuri_symbol == hiragana_to_okuri_symbol(okuri_char)
    IN  IF okuri_symbol = None THEN None
        ELSE LET key == Append(stem, Unwrap(okuri_symbol))
             IN  IF key \in DOMAIN dict.okuri_ari
                 THEN Some(dict.okuri_ari[key])
                 ELSE None

\* Faulty variant of push_full_forms (sensitivity of C15): every full form
\* is pushed, those already in the list too.
RECURSIVE push_full_forms_unchecked(_, _, _)
push_full_forms_unchecked(result, kanji_stems, okuri_char) ==
    IF kanji_stems = <<>> THEN result
    ELSE push_full_forms_unchecked(
             Append(result, Append(Head(kanji_stems), okuri_char)),
             Tail(kanji_stems), okuri_char)

\* The `for kanji_stem in kanji_stems` loop of lookup_combined
RECURSIVE push_full_forms(_, _, _)
push_full_forms(result, kanji_stems, okuri_char) ==
    IF kanji_stems = <<>> THEN result
    ELSE LET full_form == Append(Head(kanji_stems), okuri_char)
         IN  push_full_forms(
                 IF ~Contains(result, full_form)
                 THEN Append(result, full_form) ELSE result,
                 Tail(kanji_stems), okuri_char)

\* Dictionary::lookup_combined
lookup_combined(dict, reading) ==
    LET nasi == IF reading \in DOMAIN dict.okuri_nasi
                THEN dict.okuri_nasi[reading] ELSE <<>>
        chars == reading
        with_ari ==
            IF Len(chars) >= 2
            THEN LET stem == SubSeq(chars, 1, Len(chars) - 1)
                     okuri_char == chars[Len(chars)]
                     kanji_stems == lookup_okuri_ari(dict, stem, okuri_char)
                 IN  IF IsSome(kanji_stems)
                     THEN push_full_forms(nasi, Unwrap(kanji_stems), okuri_char)
                     ELSE nasi
            ELSE nasi
    IN  IF reading # <<>> /\ ~Contains(with_ari, reading)
        THEN Append(with_ari, reading)
        ELSE with_ari

\* The characters of the readings looked up: two kana of the k row, a vowel
\* and a character that is not hiragana.
LookupChars == Kana \cup {"a", "x"}

RECURSIVE StringsOver(_, _)
StringsOver(chars, n) ==
    IF n = 0 THEN {<<>>}
    ELSE LET S == StringsOver(chars, n - 1)
         IN  S \cup {Append(s, c) : s \in {t \in S : Len(t) = n - 1}, c \in chars}

LookupReadings == StringsOver(LookupChars, MaxLen - 1)

\* Entries of the okuri-nasi section for the lookups: those of NasiPool, one
\* under a vowel, one whose reading is empty.
LookupNasiPool ==
    NasiPool @@
    (<<"ka", "a">> :> << <<"K6", "a">> >>) @@
    (<<>> :> << <<"K8">> >>)

\* Entries of the okuri-ari section: stem + okuri symbol -> kanji stems. The
\* first lists a stem twice, and one whose full form with "ku" the okuri-nasi
\* entry of "kaku" has too.
AriPool ==
    (<<"ka", "k">> :> << <<"K1">>, <<"K5">>, <<"K1">> >>) @@
    (<<"ka", "a">> :> << <<"K6">>, <<"K3">> >>)

\* The dictionaries the lookups are tried on
LookupDictionaries ==
    {[okuri_nasi |-> Restrict(LookupNasiPool, S),
      okuri_ari |-> Restrict(AriPool, T)] :
        S \in SUBSET {<<>>, <<"ka">>, <<"ka", "ku">>, <<"ka", "a">>},
        T \in SUBSET (DOMAIN AriPool)}

\* Dictionaries that differ in their okuri-ari section: three okuri-nasi
\* tables, each with every selection of the okuri-ari entries.
OkuriDictionaries ==
    {[okuri_nasi |-> Restrict(NasiPool, S), okuri_ari |-> Restrict(AriPool, T)] :
        S \in {{}, {<<"ka">>}, DOMAIN NasiPool},
        T \in SUBSET (DOMAIN AriPool)}

\* The same okuri-nasi table with another okuri-ari table
WithOkuriAri(dict, T) ==
    [okuri_nasi |-> dict.okuri_nasi, okuri_ari |-> Restrict(AriPool, T)]

\* ------------------------------------------------------------- converter.rs
\* chars[start..end] (0-based, end exclusive)
Slice(chars, start, end) == SubSeq(chars, start + 1, end)

Segment(reading, start, length, candidates) ==
    [reading |-> reading, start |-> start, length |-> length,
     candidates |-> candidates]

\* Faulty variant of best_match (sensitivity of C3): the scan runs upwards
\* from pos + 1, so the shortest key wins.
best_match_shortest(dict, chars, pos, end) ==
    LET hits == {e \in (pos + 1)..end : IsSome(lookup(dict, Slice(chars, pos, e)))}
    IN  IF hits = {} THEN 0
        ELSE (CHOOSE e \in hits : \A f \in hits : e <= f) - pos

\* Faulty variant of best_match (sensitivity of C21): a substring matches
\* when either section has it, as Dictionary::has_candidates would tell.
RECURSIVE best_match_either_section(_, _, _, _)
best_match_either_section(dict, chars, pos, end) ==
    IF end < pos + 1 THEN 0
    ELSE LET sub == Slice(chars, pos, end)
         IN  IF \/ IsSome(lookup(dict, sub))
                \/ /\ Len(sub) >= 2
                   /\ IsSome(lookup_okuri_ari(dict, SubSeq(sub, 1, Len(sub) - 1),
                                              sub[Len(sub)]))
             THEN end - pos
             ELSE best_match_either_section(dict, chars, pos, end - 1)

\* The `for end in (pos + 1..=chars.len()).rev()` loop of segment_with_info:
\* the length of the first (longest) substring at pos that lookup finds, or 0
\* for best_match = None.
RECURSIVE best_match(_, _, _, _)
best_match(dict, chars, pos, end) ==
    IF end < pos + 1 THEN 0
    ELSE IF IsSome(lookup(dict, Slice(chars, pos, end))) THEN end - pos
    ELSE best_match(dict, chars, pos, end - 1)

\* Faulty variant of segment_loop (sensitivity of C1): after a match the
\* position advances by one character instead of by the match length.
RECURSIVE segment_loop_advance_one(_, _, _)
segment_loop_advance_one(dict, chars, pos) ==
    IF ~(pos < Len(chars)) THEN <<>>
    ELSE LET len == best_match(dict, chars, pos, Len(chars))
         IN  IF len > 0
             THEN LET seg_reading == Slice(chars, pos, pos + len)
                  IN  <<Segment(seg_reading, pos, len,
                                lookup_with_fallback(dict, seg_reading))>>
                      \o segment_loop_advance_one(dict, chars, pos + 1)
             ELSE LET ch == Slice(chars, pos, pos + 1)
                  IN  <<Segment(ch, pos, 1, <<ch>>)>>
                      \o segment_loop_advance_one(dict, chars, pos + 1)

\* The `while pos < chars.len()` loop of segment_with_info.
RECURSIVE segment_loop(_, _, _)
segment_loop(dict, chars, pos) ==
    IF ~(pos < Len(chars)) THEN <<>>
    ELSE LET len == best_match(dict, chars, pos, Len(chars))
         IN  IF len > 0
             THEN LET seg_reading == Slice(chars, pos, pos + len)
                  IN  <<Segment(seg_reading, pos, len,
                                lookup_with_fallback(dict, seg_reading))>>
                      \o segment_loop(dict, chars, pos + len)
             ELSE LET ch == Slice(chars, pos, pos + 1)
                  IN  <<Segment(ch, pos, 1, <<ch>>)>>
                      \o segment_loop(dict, chars, pos + 1)

\* Faulty variant of segment_with_info (sensitivity of C4): no early return
\* without a dictionary; the loop runs with nothing to match.
segment_with_info_no_early_return(dictionary_, reading_) ==
    IF dictionary_ = None
    THEN segment_loop([okuri_nasi |-> <<>>, okuri_ari |-> <<>>], reading_, 0)
    ELSE segment_loop(Unwrap(dictionary_), reading_, 0)

\* Converter::segment_with_info
segment_with_info(dictionary_, reading_) ==
    IF dictionary_ = None
    THEN <<Segment(reading_, 0, Len(reading_), <<reading_>>)>>
    ELSE segment_loop(Unwrap(dictionary_), reading_, 0)

\* s.candidates.first().unwrap_or(&s.reading)
first_candidate(s) == IF s.candidates # <<>> THEN s.candidates[1] ELSE s.reading

RECURSIVE collect_first(_)
collect_first(segs) ==
    IF segs = <<>> THEN <<>>
    ELSE first_candidate(Head(segs)) \o collect_first(Tail(segs))

\* Faulty variant of convert_with_segments (sensitivity of C7): the reading is
\* appended without comparing it with the combined candidate.
convert_with_segments_always_append(dictionary_, reading_) ==
    IF reading_ = <<>>
    THEN [combined_candidates |-> <<>>, segments |-> <<>>]
    ELSE LET segs == segment_with_info(dictionary_, reading_)
             combined == collect_first(segs)
         IN  [combined_candidates |-> <<combined, reading_>>, segments |-> segs]

\* Converter::convert_with_segments -> ConversionResult
convert_with_segments(dictionary_, reading_) ==
    IF reading_ = <<>>
    THEN [combined_candidates |-> <<>>, segments |-> <<>>]
    ELSE LET segs == segment_with_info(dictionary_, reading_)
             combined == collect_first(segs)
         IN  [combined_candidates |->
                  IF combined # reading_ THEN <<combined, reading_>> ELSE <<combined>>,
              segments |-> segs]

\* Faulty variant of can_adjust (sensitivity of C8): >= 1 where the code has
\* > 1, so a one-character segment may be emptied.
can_adjust_off_by_one(segs, index, dir) ==
    IF index >= Len(segs) - 1 THEN FALSE
    ELSE IF dir = "Shrink" THEN segs[index + 1].length >= 1
    ELSE segs[index + 2].length >= 1

\* Converter::can_adjust (called with index < segments.len() only)
can_adjust(segs, index, dir) ==
    IF index >= Len(segs) - 1 THEN FALSE
    ELSE IF dir = "Shrink" THEN segs[index + 1].length > 1
    ELSE segs[index + 2].length > 1

\* Faulty variant of shrink_loop (sensitivity of C9): the next segment does
\* not gain the character the target gives up.
RECURSIVE shrink_loop_no_gain(_, _, _, _)
shrink_loop_no_gain(segs, index, i, pos) ==
    IF i >= Len(segs) THEN <<>>
    ELSE LET seg == segs[i + 1]
             npos == IF i = index THEN pos + seg.length - 1
                     ELSE pos + seg.length
         IN  <<npos>> \o shrink_loop_no_gain(segs, index, i + 1, npos)

\* Converter::calculate_shrink_boundaries: the loop from segment i (0-based) on
RECURSIVE shrink_loop(_, _, _, _)
shrink_loop(segs, index, i, pos) ==
    IF i >= Len(segs) THEN <<>>
    ELSE LET seg == segs[i + 1]
             npos == IF i = index THEN pos + seg.length - 1
                     ELSE IF i = index + 1 THEN pos + seg.length + 1
                     ELSE pos + seg.length
         IN  <<npos>> \o shrink_loop(segs, index, i + 1, npos)

calculate_shrink_boundaries(segs, index) == shrink_loop(segs, index, 0, 0)

\* Faulty variant of extend_loop (sensitivity of C10): the signs are those of
\* a shrink, so Extend moves the boundary the wrong way.
RECURSIVE extend_loop_backwards(_, _, _, _)
extend_loop_backwards(segs, index, i, pos) ==
    IF i >= Len(segs) THEN <<>>
    ELSE LET seg == segs[i + 1]
             npos == IF i = index THEN pos + seg.length - 1
                     ELSE IF i = index + 1 THEN pos + seg.length + 1
                     ELSE pos + seg.length
         IN  <<npos>> \o extend_loop_backwards(segs, index, i + 1, npos)

\* Faulty variant of extend_loop (sensitivity of C16): the next segment does
\* not give up the character the target gains, so the last boundary lies
\* beyond the reading.
RECURSIVE extend_loop_no_loss(_, _, _, _)
extend_loop_no_loss(segs, index, i, pos) ==
    IF i >= Len(segs) THEN <<>>
    ELSE LET seg == segs[i + 1]
             npos == IF i = index THEN pos + seg.length + 1
                     ELSE pos + seg.length
         IN  <<npos>> \o extend_loop_no_loss(segs, index, i + 1, npos)

\* Converter::calculate_extend_boundaries
RECURSIVE extend_loop(_, _, _, _)
extend_loop(segs, index, i, pos) ==
    IF i >= Len(segs) THEN <<>>
    ELSE LET seg == segs[i + 1]
             npos == IF i = index THEN pos + seg.length + 1
                     ELSE IF i = index + 1 THEN pos + seg.length - 1
                     ELSE pos + seg.length
         IN  <<npos>> \o extend_loop(segs, index, i + 1, npos)

calculate_extend_boundaries(segs, index) == extend_loop(segs, index, 0, 0)

\* Faulty variant of rebuild_loop (sensitivity of C2): the segment length is
\* the end boundary instead of end - start.
RECURSIVE rebuild_loop_length_is_end(_, _, _, _, _, _)
rebuild_loop_length_is_end(dictionary_, chars, boundaries, i, start, acc) ==
    IF i > Len(boundaries) THEN [panic |-> FALSE, segments |-> acc]
    ELSE LET end == boundaries[i]
         IN  IF start >= Len(chars) \/ end <= start
             THEN rebuild_loop_length_is_end(dictionary_, chars, boundaries,
                                             i + 1, start, acc)
             ELSE IF end > Len(chars)
             THEN [panic |-> TRUE, segments |-> <<>>]
             ELSE LET seg_reading == Slice(chars, start, end)
                      cands == IF IsSome(dictionary_)
                               THEN lookup_with_fallback(Unwrap(dictionary_), seg_reading)
                               ELSE <<seg_reading>>
                  IN  rebuild_loop_length_is_end(dictionary_, chars, boundaries,
                          i + 1, end,
                          Append(acc, Segment(seg_reading, start, end, cands)))

\* Faulty variant of rebuild_loop (sensitivity of C11): the candidates are
\* the segment's reading alone; the dictionary is not consulted.
RECURSIVE rebuild_loop_no_lookup(_, _, _, _, _, _)
rebuild_loop_no_lookup(dictionary_, chars, boundaries, i, start, acc) ==
    IF i > Len(boundaries) THEN [panic |-> FALSE, segments |-> acc]
    ELSE LET end == boundaries[i]
         IN  IF start >= Len(chars) \/ end <= start
             THEN rebuild_loop_no_lookup(dictionary_, chars, boundaries,
                                         i + 1, start, acc)
             ELSE IF end > Len(chars)
             THEN [panic |-> TRUE, segments |-> <<>>]
             ELSE LET seg_reading == Slice(chars, start, end)
                  IN  rebuild_loop_no_lookup(dictionary_, chars, boundaries,
                          i + 1, end,
                          Append(acc, Segment(seg_reading, start, end - start,
                                              <<seg_reading>>)))

\* Faulty variant of rebuild_loop (sensitivity of C26): a segment of one
\* character is skipped like an empty one, and the next segment takes it in.
RECURSIVE rebuild_loop_skip_single(_, _, _, _, _, _)
rebuild_loop_skip_single(dictionary_, chars, boundaries, i, start, acc) ==
    IF i > Len(boundaries) THEN [panic |-> FALSE, segments |-> acc]
    ELSE LET end == boundaries[i]
         IN  IF start >= Len(chars) \/ end <= start + 1
             THEN rebuild_loop_skip_single(dictionary_, chars, boundaries,
                                           i + 1, start, acc)
             ELSE IF end > Len(chars)
             THEN [panic |-> TRUE, segments |-> <<>>]
             ELSE LET seg_reading == Slice(chars, start, end)
                      cands == IF IsSome(dictionary_)
                               THEN lookup_with_fallback(Unwrap(dictionary_), seg_reading)
                               ELSE <<seg_reading>>
                  IN  rebuild_loop_skip_single(dictionary_, chars, boundaries,
                          i + 1, end,
                          Append(acc, Segment(seg_reading, start, end - start, cands)))

\* Converter::rebuild_segments_from_boundaries, from boundary i (1-based) on.
\* chars[start..end] panics when end > chars.len().
RECURSIVE rebuild_loop(_, _, _, _, _, _)
rebuild_loop(dictionary_, chars, boundaries, i, start, acc) ==
    IF i > Len(boundaries) THEN [panic |-> FALSE, segments |-> acc]
    ELSE LET end == boundaries[i]
         IN  IF start >= Len(chars) \/ end <= start
             THEN rebuild_loop(dictionary_, chars, boundaries, i + 1, start, acc)
             ELSE IF end > Len(chars)
             THEN [panic |-> TRUE, segments |-> <<>>]
             ELSE LET seg_reading == Slice(chars, start, end)
                      cands == IF IsSome(dictionary_)
                               THEN lookup_with_fallback(Unwrap(dictionary_), seg_reading)
                               ELSE <<seg_reading>>
                  IN  rebuild_loop(dictionary_, chars, boundaries, i + 1, end,
                          Append(acc, Segment(seg_reading, start, end - start, cands)))

rebuild_segments_from_boundaries(dictionary_, chars, boundaries) ==
    rebuild_loop(dictionary_, chars, boundaries, 1, 0, <<>>)

\* Converter::adjust_segment -> [panic, segments]
adjust_segment(dictionary_, reading_, current_segments, segment_index, dir) ==
    IF segment_index >= Len(current_segments)
    THEN [panic |-> FALSE, segments |-> current_segments]
    ELSE IF ~can_adjust(current_segments, segment_index, dir)
    THEN [panic |-> FALSE, segments |-> current_segments]
    ELSE LET new_boundaries ==
                 IF dir = "Shrink"
                 THEN calculate_shrink_boundaries(current_segments, segment_index)
                 ELSE calculate_extend_boundaries(current_segments, segment_index)
         IN  rebuild_segments_from_boundaries(dictionary_, reading_, new_boundaries)

\* ---------------------------------------------------------------- zenzai.rs
\* What the model's inference may do for one convert call: fail, or produce
\* an output text (after the trailing </s> is trimmed), possibly empty,
\* possibly the reading itself.
ZenzaiOutcomes(reading_) ==
    {[ok |-> FALSE, output |-> <<>>]}
    \cup {[ok |-> TRUE, output |-> o] : o \in {<<>>, <<"K7">>, reading_}}

\* ZenzaiBackend::convert (model loaded): Result<Vec<String>, ZenzaiError>
zenzai_convert(reading_, outcome) ==
    IF ~outcome.ok THEN [ok |-> FALSE, candidates |-> <<>>]
    ELSE IF outcome.output = <<>>
    THEN [ok |-> TRUE, candidates |-> <<reading_>>]
    ELSE [ok |-> TRUE, candidates |-> <<outcome.output, reading_>>]

\* --------------------------------------------------------------- protocol.rs
\* Byte strings and character strings of any length are kept run-length
\* encoded: a sequence of runs of one unit (a byte 0..255, or a character)
\* repeated count >= 1 times, adjacent runs of different units. Lengths stay
\* below 2^31.
Run(x, n) == [unit |-> x, count |-> n]

\* Concatenation
Cat(a, b) ==
    IF a = <<>> THEN b
    ELSE IF b = <<>> THEN a
    ELSE IF a[Len(a)].unit = b[1].unit
    THEN SubSeq(a, 1, Len(a) - 1)
             \o <<Run(b[1].unit, a[Len(a)].count + b[1].count)>> \o Tail(b)
    ELSE a \o b

RECURSIVE UnitCount(_)
UnitCount(s) == IF s = <<>> THEN 0 ELSE Head(s).count + UnitCount(Tail(s))

\* The first n units of s (all of s when it has fewer)
RECURSIVE TakeUnits(_, _)
TakeUnits(s, n) ==
    IF n = 0 \/ s = <<>> THEN <<>>
    ELSE IF Head(s).count <= n
    THEN <<Head(s)>> \o TakeUnits(Tail(s), n - Head(s).count)
    ELSE <<Run(Head(s).unit, n)>>

\* s without its first n units
RECURSIVE DropUnits(_, _)
DropUnits(s, n) ==
    IF n = 0 \/ s = <<>> THEN s
    ELSE IF Head(s).count <= n THEN DropUnits(Tail(s), n - Head(s).count)
    ELSE <<Run(Head(s).unit, Head(s).count - n)>> \o Tail(s)

\* The i-th unit of s, i in 1..UnitCount(s)
RECURSIVE UnitAt(_, _)
UnitAt(s, i) ==
    IF i <= Head(s).count THEN Head(s).unit
    ELSE UnitAt(Tail(s), i - Head(s).count)

\* The byte string with the given bytes
RECURSIVE FromBytes(_)
FromBytes(bytes) ==
    IF bytes = <<>> THEN <<>>
    ELSE Cat(<<Run(Head(bytes), 1)>>, FromBytes(Tail(bytes)))

\* MAX_MESSAGE_SIZE
MAX_MESSAGE_SIZE == 4 * 1024 * 1024

\* Characters are code points: 123 is "{", 97 is "a", 12363 the hiragana
\* "ka". The UTF-8 encoding of a code point below 65536 (no surrogate).
Utf8(c) ==
    IF c < 128 THEN <<c>>
    ELSE IF c < 2048 THEN <<192 + (c \div 64), 128 + (c % 64)>>
    ELSE <<224 + (c \div 4096), 128 + ((c \div 64) % 64), 128 + (c % 64)>>

\* str::as_bytes
RECURSIVE as_bytes(_)
as_bytes(msg) ==
    IF msg = <<>> THEN <<>>
    ELSE LET run == Head(msg)
             one == Utf8(run.unit)
             rest == IF run.count = 1 THEN Tail(msg)
                     ELSE <<Run(run.unit, run.count - 1)>> \o Tail(msg)
         IN  IF Len(one) = 1
             THEN Cat(<<Run(one[1], run.count)>>, as_bytes(Tail(msg)))
             ELSE Cat(FromBytes(one), as_bytes(rest))

IsContinuation(b) == b >= 128 /\ b < 192

\* String::from_utf8 -> [ok, string]. One-, two- and three-byte sequences
\* are decoded; overlong forms, surrogates, stray continuation bytes, cut
\* sequences and the bytes from 240 up are invalid (no four-byte sequence
\* occurs in the pipes of this model).
RECURSIVE from_utf8(_)
from_utf8(buf) ==
    IF buf = <<>> THEN [ok |-> TRUE, string |-> <<>>]
    ELSE LET b == Head(buf).unit
             n == UnitCount(buf)
         IN  IF b < 128
             THEN LET rest == from_utf8(Tail(buf))
                  IN  [ok |-> rest.ok,
                       string |-> Cat(<<Run(b, Head(buf).count)>>, rest.string)]
             ELSE IF b >= 194 /\ b < 224 /\ n >= 2 /\ IsContinuation(UnitAt(buf, 2))
             THEN LET rest == from_utf8(DropUnits(buf, 2))
                      c == (b - 192) * 64 + (UnitAt(buf, 2) - 128)
                  IN  [ok |-> rest.ok, string |-> Cat(<<Run(c, 1)>>, rest.string)]
             ELSE IF /\ b >= 224 /\ b < 240 /\ n >= 3
                     /\ IsContinuation(UnitAt(buf, 2))
                     /\ IsContinuation(UnitAt(buf, 3))
                     /\ LET c == (b - 224) * 4096 + (UnitAt(buf, 2) - 128) * 64
                                     + (UnitAt(buf, 3) - 128)
                        IN  c >= 2048 /\ ~(c >= 55296 /\ c < 57344)
             THEN LET rest == from_utf8(DropUnits(buf, 3))
                      c == (b - 224) * 4096 + (UnitAt(buf, 2) - 128) * 64
                               + (UnitAt(buf, 3) - 128)
                  IN  [ok |-> rest.ok, string |-> Cat(<<Run(c, 1)>>, rest.string)]
             ELSE [ok |-> FALSE, string |-> <<>>]

\* write_u32::<BigEndian>
u32_big_endian(len) ==
    FromBytes(<<(len \div 16777216) % 256, (len \div 65536) % 256,
                (len \div 256) % 256, len % 256>>)

\* read_u32::<BigEndian> of four bytes
read_u32(four) ==
    UnitAt(four, 1) * 16777216 + UnitAt(four, 2) * 65536
        + UnitAt(four, 3) * 256 + UnitAt(four, 4)

\* Faulty variant of write_message (sensitivity of C17): the length prefix
\* counts characters, not bytes.
write_message_char_count(writer, msg) ==
    Cat(writer, Cat(u32_big_endian(UnitCount(msg)), as_bytes(msg)))

\* write_message: the bytes in the pipe afterwards
write_message(writer, msg) ==
    LET bytes == as_bytes(msg)
    IN  Cat(writer, Cat(u32_big_endian(UnitCount(bytes)), bytes))

\* Faulty variant of read_message (sensitivity of C18): the length is not
\* compared with MAX_MESSAGE_SIZE.
read_message_unlimited(reader, eof) ==
    LET available == UnitCount(reader)
        Blocked == [kind |-> "blocked", available |-> available, len |-> None,
                    consumed |-> 0, rest |-> reader]
    IN  IF available < 4
        THEN IF eof
             THEN [kind |-> "eof", available |-> available, len |-> None,
                   consumed |-> available, rest |-> <<>>]
             ELSE Blocked
        ELSE LET len == read_u32(TakeUnits(reader, 4))
                 after == DropUnits(reader, 4)
             IN  IF available - 4 < len
                 THEN IF eof
                      THEN [kind |-> "err", error |-> "UnexpectedEof",
                            available |-> available, len |-> Some(len),
                            consumed |-> available, rest |-> <<>>]
                      ELSE Blocked
                 ELSE LET decoded == from_utf8(TakeUnits(after, len))
                      IN  IF decoded.ok
                          THEN [kind |-> "message", message |-> decoded.string,
                                available |-> available, len |-> Some(len),
                                consumed |-> 4 + len,
                                rest |-> DropUnits(after, len)]
                          ELSE [kind |-> "err", error |-> "InvalidData",
                                available |-> available, len |-> Some(len),
                                consumed |-> 4 + len,
                                rest |-> DropUnits(after, len)]

\* read_message on the bytes in the pipe; eof: the writing end is closed, so
\* a read that finds too few bytes ends instead of waiting. The result: kind
\* "message" for Ok(Some(message)), "eof" for Ok(None), "err" for Err(error),
\* "blocked" when the call waits for more bytes; with it the bytes that were
\* available, the length prefix if one was read, the bytes consumed and the
\* bytes left.
read_message(reader, eof) ==
    LET available == UnitCount(reader)
        Blocked == [kind |-> "blocked", available |-> available, len |-> None,
                    consumed |-> 0, rest |-> reader]
    IN  IF available < 4
        THEN IF eof
             THEN [kind |-> "eof", available |-> available, len |-> None,
                   consumed |-> available, rest |-> <<>>]
             ELSE Blocked
        ELSE LET len == read_u32(TakeUnits(reader, 4))
                 after == DropUnits(reader, 4)
             IN  IF len > MAX_MESSAGE_SIZE
                 THEN [kind |-> "err", error |-> "InvalidData",
                       available |-> available, len |-> Some(len),
                       consumed |-> 4, rest |-> after]
                 ELSE IF available - 4 < len
                 THEN IF eof
                      THEN [kind |-> "err", error |-> "UnexpectedEof",
                            available |-> available, len |-> Some(len),
                            consumed |-> available, rest |-> <<>>]
                      ELSE Blocked
                 ELSE LET decoded == from_utf8(TakeUnits(after, len))
                      IN  IF decoded.ok
                          THEN [kind |-> "message", message |-> decoded.string,
                                available |-> available, len |-> Some(len),
                                consumed |-> 4 + len,
                                rest |-> DropUnits(after, len)]
                          ELSE [kind |-> "err", error |-> "InvalidData",
                                available |-> available, len |-> Some(len),
                                consumed |-> 4 + len,
                                rest |-> DropUnits(after, len)]

\* The message strings written: the empty one, short ones of one-byte and
\* three-byte characters, one of exactly MAX_MESSAGE_SIZE bytes and one of
\* one byte more.
Messages ==
    {<<>>,
     <<Run(123, 1)>>,
     <<Run(12363, 1)>>,
     <<Run(97, 2), Run(12363, 2), Run(123, 1)>>,
     <<Run(97, MAX_MESSAGE_SIZE)>>,
     <<Run(97, MAX_MESSAGE_SIZE + 1)>>}

\* Bytes found in a pipe that write_message did not write: nothing, a part
\* of a length prefix, a prefix above MAX_MESSAGE_SIZE (by one, and far
\* above), a prefix of exactly MAX_MESSAGE_SIZE, a frame whose body is cut
\* short, a frame whose body is not UTF-8, and an empty frame.
RawStreams ==
    {FromBytes(bytes) : bytes \in
        {<<>>,
         <<0>>,
         <<0, 0, 0>>,
         <<0, 64, 0, 1>>,
         <<127, 255, 255, 255, 97>>,
         <<0, 64, 0, 0>>,
         <<0, 0, 0, 2, 97>>,
         <<0, 0, 0, 1, 255>>,
         <<0, 0, 0, 0>>}}

\* ------------------------------------------------------------------- state
VARIABLES
    dictionary,     \* Converter.dictionary: Option<Dictionary>
    zenzai_feature, \* the build has the "zenzai" feature
    zenzai,         \* Server.zenzai: Option<ZenzaiBackend>
    zenzai_config,  \* Server.zenzai_config (build without the feature)
    reported,       \* zenzai_enabled of the last InitResult written that had
                    \* one (None: no such InitResult yet)
    pc,             \* where the serving loop of main is
    request,        \* the request the loop has read and parsed
    response,       \* the response handle_request returned for it
    reading,        \* the reading the caller is converting
    segments,       \* the caller's current segment list for that reading
    call,           \* the last Converter call: its name and arguments
    ret,            \* what that call returned (panic: it did not return)
    chained,        \* segments descends from convert_with_segments(reading)
                    \* through adjust_segment calls each fed the previous output
    round_trip,     \* the list a Shrink was applied to, kept while an Extend
                    \* at the same index follows it
    past,           \* the requests answered so far: "none", "plain" (none
                    \* of them an Init with a zenzai config) or "neural"
    wire,           \* the bytes written to the pipe and not yet read
    closed,         \* the writing end of the pipe is closed
    sent,           \* the messages written with write_message, in order
    received,       \* the messages read_message returned, in order
    last_read,      \* what the last read_message call returned
    stdin,          \* the messages framed on standard input and not yet read
    stdin_end,      \* what follows them: "eof", or "error" for bytes that
                    \* read_message answers with Err
    stdout,         \* the responses main has written, in order
    served          \* the messages main has read, in order

vars == <<dictionary, zenzai_feature, zenzai, zenzai_config, reported, pc,
          request,
          response, reading, segments, call, ret, chained, round_trip, past,
          wire, closed, sent, received, last_read, stdin, stdin_end, stdout,
          served>>

server_vars == <<zenzai_feature, zenzai, zenzai_config, reported, pc, request,
                 response,
                 past>>

frame_vars == <<wire, closed, sent, received, last_read>>

caller_vars == <<reading, segments, call, ret, chained, round_trip>>

main_vars == <<stdin, stdin_end, stdout, served>>

\* ------------------------------------------------------- inputs of the calls
Directions == {"Shrink", "Extend"}

Min(a, b) == IF a < b THEN a ELSE b

RECURSIVE Sum(_)
Sum(v) == IF v = <<>> THEN 0 ELSE Head(v) + Sum(Tail(v))

RECURSIVE VectorsOfLen(_)
VectorsOfLen(k) ==
    IF k = 0 THEN {<<>>}
    ELSE {Append(v, n) : v \in VectorsOfLen(k - 1), n \in 0..MaxLen}

AllVectors == UNION {VectorsOfLen(k) : k \in 0..MaxSegs}

PositiveVectors == {v \in AllVectors : \A i \in 1..Len(v) : v[i] >= 1}

\* The length fields of a caller-supplied segment list for a reading of n
\* characters: they sum to n (zero lengths allowed), or are off by one.
LengthVectors(n) == {v \in AllVectors : Sum(v) \in {n - 1, n, n + 1}}

\* Those that partition the reading: every length >= 1, summing to n.
PartitionVectors(n) == {v \in PositiveVectors : Sum(v) = n}

\* The candidate list a caller sends along with a segment of its own making:
\* one no dictionary lookup returns.
CandidateInputs == {<< <<"K9">> >>}

\* The caller's segment list with the given lengths: starts accumulate, each
\* reading is the part of the full reading the range covers.
SegmentsOf(reading_, lens, cands) ==
    [i \in 1..Len(lens) |->
        LET start == Sum(SubSeq(lens, 1, i - 1))
        IN  Segment(Slice(reading_, Min(start, Len(reading_)),
                          Min(start + lens[i], Len(reading_))),
                    start, lens[i], cands)]

\* Any caller-supplied list
SegmentInputs(reading_) ==
    {SegmentsOf(reading_, lens, cands) :
        lens \in LengthVectors(Len(reading_)), cands \in CandidateInputs}

\* The caller-supplied lists that partition the reading
PartitionInputs(reading_) ==
    {SegmentsOf(reading_, lens, cands) :
        lens \in PartitionVectors(Len(reading_)), cands \in CandidateInputs}

SeqNumbers == 0..MaxSeq
SessionIds == {<<"s1">>}

\* ------------------------------------------------------------------ actions
NoServer ==
    /\ zenzai_feature = FALSE
    /\ zenzai = None
    /\ zenzai_config = None
    /\ reported = None
    /\ pc = "off"
    /\ request = [type |-> "none"]
    /\ response = [type |-> "none"]
    /\ past = "none"

\* Nothing written to the pipe, nothing read from it
NoFraming ==
    /\ wire = <<>>
    /\ closed = FALSE
    /\ sent = <<>>
    /\ received = <<>>
    /\ last_read = [kind |-> "none"]

\* The serving loop is not running
NoMain ==
    /\ stdin = <<>>
    /\ stdin_end = "eof"
    /\ stdout = <<>>
    /\ served = <<>>

NoCall ==
    /\ call = [op |-> "new"]
    /\ ret = [panic |-> FALSE]
    /\ chained = FALSE
    /\ round_trip = None

\* Converter::new(load_dictionary()); the caller holds a reading and a
\* segment list of its own making that partitions the reading.
Init ==
    /\ dictionary \in DictionaryStates
    /\ reading \in Readings
    /\ segments \in PartitionInputs(reading)
    /\ NoCall
    /\ NoServer
    /\ NoFraming
    /\ NoMain

\* The same, the caller's list being any list.
InitRaw ==
    /\ dictionary \in FewDictionaryStates
    /\ reading \in ShortReadings
    /\ segments \in SegmentInputs(reading)
    /\ NoCall
    /\ NoServer
    /\ NoFraming
    /\ NoMain

\* Server::new() (and create_test_server): the dictionary as loaded, no
\* neural backend yet; no request made.
InitServer ==
    /\ dictionary \in DictionaryStates
    /\ zenzai_feature \in BOOLEAN
    /\ zenzai = None
    /\ zenzai_config = None
    /\ reported = None
    /\ pc = "read"
    /\ request = [type |-> "none"]
    /\ response = [type |-> "none"]
    /\ past = "none"
    /\ reading = <<>>
    /\ segments = <<>>
    /\ NoCall
    /\ NoFraming
    /\ NoMain

\* The same as Init, the dictionary file having an okuri-ari section too.
InitOkuri ==
    /\ dictionary \in {Some(d) : d \in OkuriDictionaries}
    /\ reading \in Readings
    /\ segments \in PartitionInputs(reading)
    /\ NoCall
    /\ NoServer
    /\ NoFraming
    /\ NoMain

\* A call of Converter::segment_with_info(reading)
SegmentWithInfo ==
    /\ ~ret.panic
    /\ call' = [op |-> "segment_with_info"]
    /\ ret' = [panic |-> FALSE, segments |-> segment_with_info(dictionary, reading)]
    /\ segments' = ret'.segments
    /\ chained' = FALSE
    /\ round_trip' = None
    /\ UNCHANGED <<dictionary, reading, server_vars, frame_vars, main_vars>>

\* A call of Converter::convert_with_segments(reading)
ConvertWithSegments ==
    /\ ~ret.panic
    /\ LET result == convert_with_segments(dictionary, reading)
       IN  /\ call' = [op |-> "convert_with_segments"]
           /\ ret' = [panic |-> FALSE, segments |-> result.segments,
                      combined_candidates |-> result.combined_candidates]
           /\ segments' = result.segments
    /\ chained' = TRUE
    /\ round_trip' = None
    /\ UNCHANGED <<dictionary, reading, server_vars, frame_vars, main_vars>>

\* A call of Converter::adjust_segment(reading, segments, index, direction)
\* on the caller's current list; the caller keeps the returned list.
AdjustSegment ==
    /\ ~ret.panic
    /\ \E index \in 0..MaxSegs, dir \in Directions :
         LET result == adjust_segment(dictionary, reading, segments, index, dir)
         IN  /\ call' = [op |-> "adjust_segment", current_segments |-> segments,
                         segment_index |-> index, direction |-> dir]
             /\ ret' = result
             /\ segments' = IF result.panic THEN segments ELSE result.segments
             /\ chained' = chained
             /\ round_trip' =
                    IF dir = "Shrink"
                    THEN Some([from |-> segments, index |-> index, done |-> FALSE])
                    ELSE IF /\ IsSome(round_trip)
                            /\ ~Unwrap(round_trip).done
                            /\ Unwrap(round_trip).index = index
                    THEN Some([Unwrap(round_trip) EXCEPT !.done = TRUE])
                    ELSE None
    /\ UNCHANGED <<dictionary, reading, server_vars, frame_vars, main_vars>>

\* Dictionary::load left some dictionary; a reading is to be looked up.
InitLookup ==
    /\ dictionary \in {Some(d) : d \in LookupDictionaries}
    /\ reading \in LookupReadings
    /\ segments = <<>>
    /\ NoCall
    /\ NoServer
    /\ NoFraming
    /\ NoMain

\* A call of Dictionary::lookup_combined(reading)
LookupCombined ==
    /\ IsSome(dictionary)
    /\ call' = [op |-> "lookup_combined"]
    /\ ret' = [panic |-> FALSE,
               candidates |-> lookup_combined(Unwrap(dictionary), reading)]
    /\ UNCHANGED <<dictionary, reading, segments, chained, round_trip,
                   server_vars, frame_vars, main_vars>>

\* An empty pipe, both ends open
InitFraming ==
    /\ dictionary = None
    /\ reading = <<>>
    /\ segments = <<>>
    /\ NoCall
    /\ NoServer
    /\ NoFraming
    /\ NoMain

\* A pipe that already holds bytes of some other origin
InitWire ==
    /\ dictionary = None
    /\ reading = <<>>
    /\ segments = <<>>
    /\ NoCall
    /\ NoServer
    /\ wire \in RawStreams
    /\ closed = FALSE
    /\ sent = <<>>
    /\ received = <<>>
    /\ last_read = [kind |-> "none"]
    /\ NoMain

\* The reader has not given up: main leaves its loop on Ok(None) and on Err
Reading == last_read.kind \in {"none", "message"}

\* A call of write_message(msg)
WriteMessage ==
    /\ ~closed
    /\ Len(sent) < MaxFrames
    /\ \E msg \in Messages :
         /\ wire' = write_message(wire, msg)
         /\ sent' = Append(sent, msg)
    /\ UNCHANGED <<closed, received, last_read, dictionary, caller_vars,
                   server_vars, main_vars>>

\* The writing end is closed (the peer exits)
CloseWriter ==
    /\ ~closed
    /\ closed' = TRUE
    /\ UNCHANGED <<wire, sent, received, last_read, dictionary, caller_vars,
                   server_vars, main_vars>>

\* A call of read_message that returns
ReadMessage ==
    /\ Reading
    /\ LET result == read_message(wire, closed)
       IN  /\ result.kind # "blocked"
           /\ wire' = result.rest
           /\ received' = IF result.kind = "message"
                          THEN Append(received, result.message)
                          ELSE received
           /\ last_read' = [r \in DOMAIN result \ {"rest"} |-> result[r]]
    /\ UNCHANGED <<closed, sent, dictionary, caller_vars, server_vars, main_vars>>

\* ---------------------------------------------------------------- handler.rs
\* Faulty variant of is_zenzai_enabled (sensitivity of C20): a feature build
\* counts the backend as ready once a first request has been answered.
is_zenzai_enabled_after_first == zenzai_feature /\ past # "none"

\* Server::is_zenzai_enabled: a backend is held and its model is loaded
\* (false in a build without the feature).
is_zenzai_enabled ==
    zenzai_feature /\ IsSome(zenzai) /\ Unwrap(zenzai).model_loaded

\* Server::init_zenzai (feature build): the backend the server holds
\* afterwards and the flag returned. usable: config.is_usable() finds the
\* model file; init_ok: backend.initialize() succeeds.
init_zenzai(config, usable, init_ok) ==
    IF ~config.enabled THEN [zenzai |-> zenzai, enabled |-> FALSE]
    ELSE IF ~usable THEN [zenzai |-> zenzai, enabled |-> FALSE]
    ELSE IF init_ok
    THEN [zenzai |-> Some([model_loaded |-> TRUE]), enabled |-> TRUE]
    ELSE [zenzai |-> zenzai, enabled |-> FALSE]

ZenzaiConfigs == {None} \cup {Some([enabled |-> e]) : e \in BOOLEAN}

\* The requests a client may send (message.rs, Request; handler.rs adds the
\* zenzai field of Init). Convert's cursor and options are ignored by the
\* handler and left out.
InitRequests ==
    {[type |-> "init", seq |-> seq, session_id |-> sid, zenzai |-> cfg] :
        seq \in SeqNumbers, sid \in {None} \cup {Some(x) : x \in SessionIds},
        cfg \in ZenzaiConfigs}

ConvertRequests ==
    {[type |-> "convert", seq |-> seq, session_id |-> sid, reading |-> r] :
        seq \in SeqNumbers, sid \in SessionIds, r \in Readings}

CommitRequests ==
    {[type |-> "commit", seq |-> seq, session_id |-> sid,
      reading |-> <<"ka">>, candidate |-> <<"K1">>] :
        seq \in SeqNumbers, sid \in SessionIds}

ShutdownRequests ==
    {[type |-> "shutdown", seq |-> seq, session_id |-> sid] :
        seq \in SeqNumbers, sid \in {None} \cup {Some(x) : x \in SessionIds}}

\* The direction strings of an AdjustSegment request; the last is not one the
\* handler knows.
DirectionStrings == {"shrink", "extend", "sideways"}

\* The readings a client adjusts the segments of
AdjustReadings == {<<"ka", "ku">>, <<"ka", "ku", "ka">>}

\* Segment lists that do not partition their reading: lengths that sum to
\* more than the reading has, to less, and a zero length.
MalformedInputs(reading_) ==
    {SegmentsOf(reading_, lens, cands) :
        lens \in {<<Len(reading_), 2>>, <<2, Len(reading_)>>, <<1>>, <<2, 0>>},
        cands \in CandidateInputs}

\* AdjustSegment requests: the segments partition the reading, or do not
AdjustSegmentRequests ==
    UNION {{[type |-> "adjust_segment", seq |-> seq, session_id |-> sid,
             reading |-> r, segments |-> segs, segment_index |-> index,
             direction |-> d] :
               seq \in SeqNumbers, sid \in SessionIds,
               segs \in PartitionInputs(r) \cup MalformedInputs(r),
               index \in 0..MaxSegs, d \in DirectionStrings} :
           r \in AdjustReadings}

Requests ==
    InitRequests \cup ConvertRequests \cup CommitRequests
        \cup ShutdownRequests \cup AdjustSegmentRequests

\* What `past` becomes once the request is answered
Answered(req) ==
    IF req.type = "init" /\ IsSome(req.zenzai) THEN "neural"
    ELSE IF past = "none" THEN "plain"
    ELSE past

\* What `reported` becomes once the response is written
Reported(req, resp) ==
    IF req.type = "init" /\ IsSome(resp.zenzai_enabled)
    THEN resp.zenzai_enabled
    ELSE reported

\* main: read_message returned a message and it parsed as a Request
ReadRequest ==
    /\ pc = "read"
    /\ request' \in Requests
    /\ response' = [type |-> "none"]
    /\ pc' = "handle"
    /\ UNCHANGED <<dictionary, zenzai_feature, zenzai, zenzai_config, reported,
                   past,
                   caller_vars, frame_vars, main_vars>>

\* handle_request(Request::Init)
HandleInit ==
    /\ pc = "handle"
    /\ request.type = "init"
    /\ \E usable \in BOOLEAN, init_ok \in BOOLEAN :
        LET session_id == IF IsSome(request.session_id)
                          THEN Unwrap(request.session_id)
                          ELSE <<"session_", "millis">>
            done == IF IsSome(request.zenzai) /\ zenzai_feature
                    THEN init_zenzai(Unwrap(request.zenzai), usable, init_ok)
                    ELSE [zenzai |-> zenzai, enabled |-> FALSE]
        IN  /\ zenzai' = done.zenzai
            /\ zenzai_config' = IF IsSome(request.zenzai) /\ ~zenzai_feature
                                THEN request.zenzai
                                ELSE zenzai_config
            /\ response' = [type |-> "init_result", seq |-> request.seq,
                            session_id |-> session_id,
                            has_dictionary |-> IsSome(dictionary),
                            zenzai_enabled |->
                                IF IsSome(request.zenzai)
                                THEN Some(done.enabled) ELSE None]
    /\ pc' = "write"
    /\ UNCHANGED <<dictionary, zenzai_feature, request, past, reported,
                   caller_vars, frame_vars, main_vars>>

\* Faulty variant of merge_candidates (sensitivity of C12): the dictionary
\* candidates lead and the neural ones follow.
RECURSIVE merge_candidates_dictionary_first(_, _)
merge_candidates_dictionary_first(zenzai_cands, dict_cands) ==
    IF zenzai_cands = <<>> THEN dict_cands
    ELSE merge_candidates_dictionary_first(
             Tail(zenzai_cands),
             IF ~Contains(dict_cands, Head(zenzai_cands))
             THEN Append(dict_cands, Head(zenzai_cands))
             ELSE dict_cands)

\* The merge of handle_request(Convert): the dictionary candidates that are
\* not yet in the list are pushed after the neural ones.
RECURSIVE merge_candidates(_, _)
merge_candidates(zenzai_cands, dict_cands) ==
    IF dict_cands = <<>> THEN zenzai_cands
    ELSE merge_candidates(
             IF ~Contains(zenzai_cands, Head(dict_cands))
             THEN Append(zenzai_cands, Head(dict_cands))
             ELSE zenzai_cands,
             Tail(dict_cands))

\* Faulty variant of handle_convert (sensitivity of C13): a failed neural
\* attempt is answered with an Error.
handle_convert_error_on_failure(dictionary_, enabled, req, outcome) ==
    LET attempt == zenzai_convert(req.reading, outcome)
        dict_result == convert_with_segments(dictionary_, req.reading)
    IN  IF enabled /\ ~attempt.ok
        THEN [type |-> "error", seq |-> req.seq,
              session_id |-> Some(req.session_id),
              error |-> <<"Zenzai conversion failed">>]
        ELSE [type |-> "convert_result", seq |-> req.seq,
              session_id |-> req.session_id,
              candidates |->
                  IF enabled
                  THEN merge_candidates(attempt.candidates,
                                        dict_result.combined_candidates)
                  ELSE dict_result.combined_candidates,
              segments |-> dict_result.segments,
              neural |-> enabled,
              zenzai_candidates |->
                  IF enabled THEN Some(attempt.candidates) ELSE None]

\* Faulty variant of handle_convert (sensitivity of C14): when the neural
\* attempt succeeds the reading is returned as one segment that carries the
\* neural candidates.
handle_convert_neural_segment(dictionary_, enabled, req, outcome) ==
    LET attempt == zenzai_convert(req.reading, outcome)
        zenzai_candidates ==
            IF enabled /\ attempt.ok THEN Some(attempt.candidates) ELSE None
        dict_result == convert_with_segments(dictionary_, req.reading)
    IN  [type |-> "convert_result", seq |-> req.seq,
         session_id |-> req.session_id,
         candidates |->
             IF IsSome(zenzai_candidates)
             THEN merge_candidates(Unwrap(zenzai_candidates),
                                   dict_result.combined_candidates)
             ELSE dict_result.combined_candidates,
         segments |->
             IF IsSome(zenzai_candidates)
             THEN <<Segment(req.reading, 0, Len(req.reading),
                            Unwrap(zenzai_candidates))>>
             ELSE dict_result.segments,
         neural |-> IsSome(zenzai_candidates),
         zenzai_candidates |-> zenzai_candidates]

\* handle_request(Request::Convert) for the given outcome of the neural
\* attempt: the ConvertResult; with it, not part of the message, what the
\* neural attempt gave (zenzai_candidates) and whether it was used.
handle_convert(dictionary_, enabled, req, outcome) ==
    LET attempt == zenzai_convert(req.reading, outcome)
        zenzai_candidates ==
            IF enabled /\ attempt.ok THEN Some(attempt.candidates) ELSE None
        dict_result == convert_with_segments(dictionary_, req.reading)
        candidates ==
            IF IsSome(zenzai_candidates)
            THEN merge_candidates(Unwrap(zenzai_candidates),
                                  dict_result.combined_candidates)
            ELSE dict_result.combined_candidates
    IN  [type |-> "convert_result", seq |-> req.seq,
         session_id |-> req.session_id, candidates |-> candidates,
         segments |-> dict_result.segments,
         neural |-> IsSome(zenzai_candidates),
         zenzai_candidates |-> zenzai_candidates]

HandleConvert ==
    /\ pc = "handle"
    /\ request.type = "convert"
    /\ \E outcome \in ZenzaiOutcomes(request.reading) :
         response' = handle_convert(dictionary, is_zenzai_enabled, request, outcome)
    /\ pc' = "write"
    /\ UNCHANGED <<dictionary, zenzai_feature, zenzai, zenzai_config, reported,
                   request,
                   past, caller_vars, frame_vars, main_vars>>

\* handle_request(Request::Commit)
handle_commit(req) ==
    [type |-> "commit_result", seq |-> req.seq,
     session_id |-> req.session_id, success |-> TRUE]

HandleCommit ==
    /\ pc = "handle"
    /\ request.type = "commit"
    /\ response' = handle_commit(request)
    /\ pc' = "write"
    /\ UNCHANGED <<dictionary, zenzai_feature, zenzai, zenzai_config, reported,
                   request,
                   past, caller_vars, frame_vars, main_vars>>

\* handle_request(Request::Shutdown)
handle_shutdown(req) == [type |-> "shutdown_result", seq |-> req.seq]

HandleShutdown ==
    /\ pc = "handle"
    /\ request.type = "shutdown"
    /\ response' = handle_shutdown(request)
    /\ pc' = "write"
    /\ UNCHANGED <<dictionary, zenzai_feature, zenzai, zenzai_config, reported,
                   request,
                   past, caller_vars, frame_vars, main_vars>>

\* Faulty variant of handle_adjust_segment (sensitivity of C19): the Error
\* for an unknown direction is built like the one for an unparsable request,
\* with seq 0 and no session id.
handle_adjust_segment_anonymous_error(dictionary_, req) ==
    IF req.direction \notin {"shrink", "extend"}
    THEN [panic |-> FALSE, adjusted |-> FALSE,
          response |-> [type |-> "error", seq |-> 0, session_id |-> None,
                        error |-> <<"Invalid direction: ", req.direction>>]]
    ELSE LET dir == IF req.direction = "shrink" THEN "Shrink" ELSE "Extend"
             new_segments == adjust_segment(dictionary_, req.reading,
                                            req.segments, req.segment_index, dir)
         IN  IF new_segments.panic
             THEN [panic |-> TRUE, adjusted |-> TRUE,
                   response |-> [type |-> "none"]]
             ELSE [panic |-> FALSE, adjusted |-> TRUE,
                   response |-> [type |-> "adjust_segment_result",
                                 seq |-> req.seq,
                                 session_id |-> req.session_id,
                                 segments |-> new_segments.segments]]

\* Faulty variant of handle_adjust_segment (sensitivity of C24): a direction
\* the handler does not know is taken for "shrink".
handle_adjust_segment_default_shrink(dictionary_, req) ==
    LET dir == IF req.direction = "extend" THEN "Extend" ELSE "Shrink"
        new_segments == adjust_segment(dictionary_, req.reading,
                                       req.segments, req.segment_index, dir)
    IN  IF new_segments.panic
        THEN [panic |-> TRUE, adjusted |-> TRUE,
              response |-> [type |-> "none"]]
        ELSE [panic |-> FALSE, adjusted |-> TRUE,
              response |-> [type |-> "adjust_segment_result",
                            seq |-> req.seq,
                            session_id |-> req.session_id,
                            segments |-> new_segments.segments]]

\* handle_request(Request::AdjustSegment) -> [panic, response], and whether
\* Converter::adjust_segment was called (adjusted)
handle_adjust_segment(dictionary_, req) ==
    IF req.direction \notin {"shrink", "extend"}
    THEN [panic |-> FALSE, adjusted |-> FALSE,
          response |-> [type |-> "error", seq |-> req.seq,
                        session_id |-> Some(req.session_id),
                        error |-> <<"Invalid direction: ", req.direction>>]]
    ELSE LET dir == IF req.direction = "shrink" THEN "Shrink" ELSE "Extend"
             new_segments == adjust_segment(dictionary_, req.reading,
                                            req.segments, req.segment_index, dir)
         IN  IF new_segments.panic
             THEN [panic |-> TRUE, adjusted |-> TRUE,
                   response |-> [type |-> "none"]]
             ELSE [panic |-> FALSE, adjusted |-> TRUE,
                   response |-> [type |-> "adjust_segment_result",
                                 seq |-> req.seq,
                                 session_id |-> req.session_id,
                                 segments |-> new_segments.segments]]

HandleAdjustSegment ==
    /\ pc = "handle"
    /\ request.type = "adjust_segment"
    /\ LET done == handle_adjust_segment(dictionary, request)
       IN  /\ response' = done.response
           /\ pc' = IF done.panic THEN "panicked" ELSE "write"
    /\ UNCHANGED <<dictionary, zenzai_feature, zenzai, zenzai_config, reported,
                   request,
                   past, caller_vars, frame_vars, main_vars>>

\* main: the response is serialized and written; the loop reads again, or
\* ends after the answer to Shutdown
WriteResponse ==
    /\ pc = "write"
    /\ pc' = IF request.type = "shutdown" THEN "done" ELSE "read"
    /\ past' = Answered(request)
    /\ reported' = Reported(request, response)
    /\ request' = [type |-> "none"]
    /\ response' = [type |-> "none"]
    /\ UNCHANGED <<dictionary, zenzai_feature, zenzai, zenzai_config,
                   caller_vars, frame_vars, main_vars>>

\* ------------------------------------------------------------------ main.rs
\* A framed message is a JSON document, kept by its top-level fields, or a
\* text that is not JSON.
Json(fields) == [json |-> TRUE, fields |-> fields]
NotJson == [json |-> FALSE]

\* serde_json::from_str::<Request>(&msg): Some(request), or None for Err. The
\* enum is tagged by "type"; every variant needs an unsigned seq; session_id
\* is optional for Init and Shutdown; fields no variant has are ignored.
from_str_request(msg) ==
    IF ~msg.json THEN None
    ELSE LET v == msg.fields
             has(f) == f \in DOMAIN v
         IN  IF ~has("type") \/ ~has("seq") THEN None
             ELSE IF v.seq \notin Nat THEN None
             ELSE IF v.type = "init"
             THEN Some([type |-> "init", seq |-> v.seq,
                        session_id |-> IF has("session_id")
                                       THEN Some(v.session_id) ELSE None,
                        zenzai |-> None])
             ELSE IF v.type = "convert"
             THEN IF has("session_id") /\ has("reading")
                  THEN Some([type |-> "convert", seq |-> v.seq,
                             session_id |-> v.session_id,
                             reading |-> v.reading])
                  ELSE None
             ELSE IF v.type = "commit"
             THEN IF has("session_id") /\ has("reading") /\ has("candidate")
                  THEN Some([type |-> "commit", seq |-> v.seq,
                             session_id |-> v.session_id,
                             reading |-> v.reading,
                             candidate |-> v.candidate])
                  ELSE None
             ELSE IF v.type = "shutdown"
             THEN Some([type |-> "shutdown", seq |-> v.seq,
                        session_id |-> IF has("session_id")
                                       THEN Some(v.session_id) ELSE None])
             ELSE IF v.type = "adjust_segment"
             THEN IF /\ has("session_id") /\ has("reading") /\ has("segments")
                     /\ has("segment_index") /\ has("direction")
                  THEN Some([type |-> "adjust_segment", seq |-> v.seq,
                             session_id |-> v.session_id,
                             reading |-> v.reading,
                             segments |-> v.segments,
                             segment_index |-> v.segment_index,
                             direction |-> v.direction])
                  ELSE None
             ELSE None

\* message.rs, extract_seq: the top-level "seq" of a JSON document when it is
\* an unsigned integer
extract_seq(msg) ==
    IF ~msg.json THEN None
    ELSE IF "seq" \notin DOMAIN msg.fields THEN None
    ELSE IF msg.fields.seq \in Nat THEN Some(msg.fields.seq)
    ELSE None

\* The messages a client frames on standard input: one request of each kind
\* (an AdjustSegment that is legal, one with an unknown direction, one whose
\* lengths sum to more than the reading has), and messages that are no
\* Request: an unknown type, a Convert without its reading, a Shutdown
\* without seq or with a negative one, a text that is not JSON.
MainMessages ==
    UNION {{Json([type |-> "init", seq |-> seq]),
            Json([type |-> "convert", seq |-> seq, session_id |-> <<"s1">>,
                  reading |-> <<"ka", "ku">>, cursor |-> 2]),
            Json([type |-> "commit", seq |-> seq, session_id |-> <<"s1">>,
                  reading |-> <<"ka">>, candidate |-> <<"K1">>]),
            Json([type |-> "shutdown", seq |-> seq]),
            Json([type |-> "adjust_segment", seq |-> seq,
                  session_id |-> <<"s1">>, reading |-> <<"ka", "ku", "ka">>,
                  segments |-> SegmentsOf(<<"ka", "ku", "ka">>, <<2, 1>>,
                                          << <<"K9">> >>),
                  segment_index |-> 0, direction |-> "shrink"]),
            Json([type |-> "adjust_segment", seq |-> seq,
                  session_id |-> <<"s1">>, reading |-> <<"ka", "ku", "ka">>,
                  segments |-> SegmentsOf(<<"ka", "ku", "ka">>, <<2, 1>>,
                                          << <<"K9">> >>),
                  segment_index |-> 0, direction |-> "sideways"]),
            Json([type |-> "adjust_segment", seq |-> seq,
                  session_id |-> <<"s1">>, reading |-> <<"ka", "ku">>,
                  segments |-> SegmentsOf(<<"ka", "ku">>, <<2, 2>>,
                                          << <<"K9">> >>),
                  segment_index |-> 0, direction |-> "shrink"]),
            Json([type |-> "bogus", seq |-> seq]),
            Json([type |-> "convert", seq |-> seq, session_id |-> <<"s1">>])} :
           seq \in SeqNumbers}
    \cup {Json([type |-> "shutdown"]),
          Json([type |-> "shutdown", seq |-> -1]),
          NotJson}

\* The contents of standard input: at most MaxFrames messages
RECURSIVE MessagesUpTo(_)
MessagesUpTo(n) ==
    IF n = 0 THEN {<<>>}
    ELSE LET S == MessagesUpTo(n - 1)
         IN  S \cup {Append(s, m) : s \in {t \in S : Len(t) = n - 1},
                                    m \in MainMessages}

\* main: Server::new(), the loop about to read; standard input holds the
\* client's messages. The Server of main.rs has no neural backend.
InitMain ==
    /\ dictionary \in {None, Some([okuri_nasi |-> NasiPool, okuri_ari |-> <<>>])}
    /\ zenzai_feature = FALSE
    /\ zenzai = None
    /\ zenzai_config = None
    /\ reported = None
    /\ pc = "read"
    /\ request = [type |-> "none"]
    /\ response = [type |-> "none"]
    /\ past = "none"
    /\ reading = <<>>
    /\ segments = <<>>
    /\ NoCall
    /\ NoFraming
    /\ stdin \in MessagesUpTo(MaxFrames)
    /\ stdin_end \in {"eof", "error"}
    /\ stdout = <<>>
    /\ served = <<>>

\* main: read_message returned Some(msg) and msg parsed as a Request
MainReadRequest ==
    /\ pc = "read"
    /\ stdin # <<>>
    /\ IsSome(from_str_request(Head(stdin)))
    /\ request' = Unwrap(from_str_request(Head(stdin)))
    /\ response' = [type |-> "none"]
    /\ pc' = "handle"
    /\ stdin' = Tail(stdin)
    /\ served' = Append(served, Head(stdin))
    /\ UNCHANGED <<dictionary, zenzai_feature, zenzai, zenzai_config, reported,
                   past,
                   caller_vars, frame_vars, stdin_end, stdout>>

\* main: read_message returned Some(msg) and msg did not parse (the Err arm)
MainParseFailure ==
    /\ pc = "read"
    /\ stdin # <<>>
    /\ from_str_request(Head(stdin)) = None
    /\ request' = [type |-> "none"]
    /\ response' = [type |-> "error", seq |-> 0, session_id |-> None,
                    error |-> <<"Failed to parse request: ">>]
    /\ pc' = "write"
    /\ stdin' = Tail(stdin)
    /\ served' = Append(served, Head(stdin))
    /\ UNCHANGED <<dictionary, zenzai_feature, zenzai, zenzai_config, reported,
                   past,
                   caller_vars, frame_vars, stdin_end, stdout>>

\* main: read_message returned None (end of input before a length prefix)
MainEof ==
    /\ pc = "read"
    /\ stdin = <<>>
    /\ stdin_end = "eof"
    /\ pc' = "done"
    /\ UNCHANGED <<dictionary, zenzai_feature, zenzai, zenzai_config, reported,
                   request,
                   response, past, caller_vars, frame_vars, main_vars>>

\* main: read_message returned Err and `?` returns it from main
MainReadError ==
    /\ pc = "read"
    /\ stdin = <<>>
    /\ stdin_end = "error"
    /\ pc' = "failed"
    /\ UNCHANGED <<dictionary, zenzai_feature, zenzai, zenzai_config, reported,
                   request,
                   response, past, caller_vars, frame_vars, main_vars>>

\* Faulty variant of MainWriteResponse (sensitivity of C23): the loop does
\* not break after the answer to Shutdown.
MainWriteResponse_no_break ==
    /\ pc = "write"
    /\ stdout' = Append(stdout, response)
    /\ pc' = "read"
    /\ past' = Answered(request)
    /\ reported' = Reported(request, response)
    /\ request' = [type |-> "none"]
    /\ response' = [type |-> "none"]
    /\ UNCHANGED <<dictionary, zenzai_feature, zenzai, zenzai_config,
                   caller_vars, frame_vars, stdin, stdin_end, served>>

\* main: the response is serialized and written to standard output (which
\* takes every write); after the answer to Shutdown the loop breaks
MainWriteResponse ==
    /\ pc = "write"
    /\ stdout' = Append(stdout, response)
    /\ pc' = IF request.type = "shutdown" THEN "done" ELSE "read"
    /\ past' = Answered(request)
    /\ reported' = Reported(request, response)
    /\ request' = [type |-> "none"]
    /\ response' = [type |-> "none"]
    /\ UNCHANGED <<dictionary, zenzai_feature, zenzai, zenzai_config,
                   caller_vars, frame_vars, stdin, stdin_end, served>>

\* ---------------------------------------------------------- specifications
Next == SegmentWithInfo \/ ConvertWithSegments \/ AdjustSegment

\* The Converter driven by a caller whose first list partitions the reading
Spec == Init /\ [][Next]_vars

\* The Converter driven by a caller with any list
SpecRaw == InitRaw /\ [][Next]_vars

\* The Converter over dictionaries with inflected entries
SpecOkuri == InitOkuri /\ [][Next]_vars

NextLookup == LookupCombined

\* The Dictionary asked for the candidates of a reading
SpecLookup == InitLookup /\ [][NextLookup]_vars

NextFraming == WriteMessage \/ CloseWriter \/ ReadMessage

\* Messages written to an empty pipe and read back
SpecFraming == InitFraming /\ [][NextFraming]_vars

\* The same on a pipe that holds other bytes first
SpecWire == InitWire /\ [][NextFraming]_vars

NextServer ==
    \/ ReadRequest
    \/ HandleInit
    \/ HandleConvert
    \/ HandleCommit
    \/ HandleShutdown
    \/ HandleAdjustSegment
    \/ WriteResponse

\* The request handler
SpecServer == InitServer /\ [][NextServer]_vars

NextMain ==
    \/ MainReadRequest
    \/ MainParseFailure
    \/ MainEof
    \/ MainReadError
    \/ HandleInit
    \/ HandleConvert
    \/ HandleCommit
    \/ HandleShutdown
    \/ HandleAdjustSegment
    \/ MainWriteResponse

\* The serving loop of main over the messages on standard input
SpecMain == InitMain /\ [][NextMain]_vars

\* ================================================================ properties
RECURSIVE ConcatReadings(_)
ConcatReadings(segs) ==
    IF segs = <<>> THEN <<>>
    ELSE Head(segs).reading \o ConcatReadings(Tail(segs))

RECURSIVE SumLengths(_)
SumLengths(segs) ==
    IF segs = <<>> THEN 0 ELSE Head(segs).length + SumLengths(Tail(segs))

\* Segment 0 starts at 0 and each next start is the previous start + length.
Contiguous(segs) ==
    \A i \in 1..Len(segs) :
        segs[i].start = IF i = 1 THEN 0 ELSE segs[i - 1].start + segs[i - 1].length

Ascending(segs) ==
    \A i \in 1..Len(segs), j \in 1..Len(segs) :
        i < j => segs[i].start <= segs[j].start

LengthsAreCharCounts(segs) ==
    \A i \in 1..Len(segs) : segs[i].length = Len(segs[i].reading)

\* The list partitions the reading r.
IsPartition(segs, r) ==
    /\ Contiguous(segs)
    /\ Ascending(segs)
    /\ \A i \in 1..Len(segs) : segs[i].length >= 1
    /\ LengthsAreCharCounts(segs)
    /\ ConcatReadings(segs) = r

\* The <<start, length>> of every segment.
Boundaries(segs) == [i \in 1..Len(segs) |-> <<segs[i].start, segs[i].length>>]

\* The legality rules of an adjustment, as the specification states them
\* (index 0-based).
ShrinkLegal(segs, index) ==
    index + 1 < Len(segs) /\ segs[index + 1].length > 1

ExtendLegal(segs, index) ==
    index + 1 < Len(segs) /\ segs[index + 2].length > 1

Legal(segs, index, dir) ==
    IF dir = "Shrink" THEN ShrinkLegal(segs, index) ELSE ExtendLegal(segs, index)

\* C1: with a loaded dictionary, the segments segment_with_info returns are
\* ordered by start, contiguous from 0 and non-overlapping, each length is the
\* character count of its reading, the readings concatenate to the reading
\* and the lengths sum to its length.
C1_SegmentsPartitionReading ==
    (call.op = "segment_with_info" /\ IsSome(dictionary)) =>
        /\ Ascending(ret.segments)
        /\ Contiguous(ret.segments)
        /\ LengthsAreCharCounts(ret.segments)
        /\ ConcatReadings(ret.segments) = reading
        /\ SumLengths(ret.segments) = Len(reading)

C1_Witness ==
    /\ call.op = "segment_with_info"
    /\ IsSome(dictionary)
    /\ Len(ret.segments) >= 2
    /\ \E i \in 1..Len(ret.segments) : ret.segments[i].length >= 2

\* C2: the list convert_with_segments returned, and every list a sequence of
\* adjust_segment calls (any index, any direction, each fed the previous
\* output) makes of it, partitions the reading: starts ascending and
\* contiguous from 0, every length >= 1, readings concatenating to it.
C2_AdjustKeepsPartition ==
    chained => (~ret.panic /\ IsPartition(segments, reading))

C2_Witness ==
    /\ chained
    /\ call.op = "adjust_segment"
    /\ ~ret.panic
    /\ Boundaries(ret.segments) # Boundaries(call.current_segments)
    /\ Len(ret.segments) >= 2

\* The ends e of the okuri-nasi keys that start at position p of r.
KeyEnds(dict, r, p) ==
    {e \in (p + 1)..Len(r) : Slice(r, p, e) \in DOMAIN dict.okuri_nasi}

MaxOf(S) == CHOOSE x \in S : \A y \in S : y <= x

\* C3: greedy longest match: with a loaded dictionary, each segment of
\* segment_with_info is the longest okuri-nasi key starting at its position,
\* or the single character there when no key starts at that position.
C3_GreedyLongestMatch ==
    (call.op = "segment_with_info" /\ IsSome(dictionary)) =>
        \A i \in 1..Len(ret.segments) :
            LET seg == ret.segments[i]
                ends == KeyEnds(Unwrap(dictionary), reading, seg.start)
            IN  IF ends # {}
                THEN /\ seg.length = MaxOf(ends) - seg.start
                     /\ seg.reading = Slice(reading, seg.start, MaxOf(ends))
                ELSE /\ seg.length = 1
                     /\ seg.reading = Slice(reading, seg.start, seg.start + 1)

\* A position where a shorter and a longer key both start, and one where none.
C3_Witness ==
    /\ call.op = "segment_with_info"
    /\ IsSome(dictionary)
    /\ \E i \in 1..Len(ret.segments) :
          Cardinality(KeyEnds(Unwrap(dictionary), reading, ret.segments[i].start)) >= 2
    /\ \E i \in 1..Len(ret.segments) :
          KeyEnds(Unwrap(dictionary), reading, ret.segments[i].start) = {}

IsEmptyDictionary(d) == d.okuri_nasi = <<>> /\ d.okuri_ari = <<>>

OneSegmentSpanning(r) == <<Segment(r, 0, Len(r), <<r>>)>>

\* One single-character segment per character of r.
CharacterSegments(r) ==
    [i \in 1..Len(r) |-> Segment(<<r[i]>>, i - 1, 1, << <<r[i]>> >>)]

C5_EmptyReadingEmptyResult ==
    /\ (call.op = "convert_with_segments" /\ reading = <<>>) =>
          (ret.combined_candidates = <<>> /\ ret.segments = <<>>)
    /\ (response.type = "convert_result" /\ request.reading = <<>>) =>
          (response.candidates = <<>> /\ response.segments = <<>>)

\* C6: segment_with_info of the empty reading is the empty list, whatever the
\* dictionary state, and holds no zero-length segment.
C6_EmptyReadingNoSegments ==
    (call.op = "segment_with_info" /\ reading = <<>>) =>
        /\ ret.segments = <<>>
        /\ \A i \in 1..Len(ret.segments) : ret.segments[i].length # 0

\* The in-order concatenation of each segment's first candidate.
RECURSIVE JoinFirstCandidates(_, _)
JoinFirstCandidates(segs, i) ==
    IF i > Len(segs) THEN <<>>
    ELSE segs[i].candidates[1] \o JoinFirstCandidates(segs, i + 1)

\* C7: for a non-empty reading, combined_candidates starts with the
\* concatenation of the segments' first candidates and has the reading as its
\* second and last entry exactly when that concatenation differs from it.
C7_CombinedCandidates ==
    (call.op = "convert_with_segments" /\ reading # <<>>) =>
        LET joined == JoinFirstCandidates(ret.segments, 1)
            combined == ret.combined_candidates
        IN  /\ \A i \in 1..Len(ret.segments) : ret.segments[i].candidates # <<>>
            /\ Len(combined) \in {1, 2}
            /\ combined[1] = joined
            /\ (joined # reading) <=> (Len(combined) = 2)
            /\ Len(combined) = 2 => combined[2] = reading
            /\ Contains(combined, reading)

\* Both cases: here the concatenation differs from the reading ...
C7_Witness ==
    /\ call.op = "convert_with_segments"
    /\ Len(ret.segments) >= 2
    /\ Len(ret.combined_candidates) = 2
    /\ \E i \in 1..Len(ret.segments) : ret.segments[i].length >= 2

\* ... and here a dictionary entry is used and it is the reading itself.
C7_WitnessSame ==
    /\ call.op = "convert_with_segments"
    /\ IsSome(dictionary)
    /\ Len(ret.combined_candidates) = 1
    /\ \E i \in 1..Len(ret.segments) : Len(ret.segments[i].candidates) >= 2

\* The illegal adjustments the claim lists.
Illegal(segs, index, dir) ==
    \/ index >= Len(segs)
    \/ index = Len(segs) - 1
    \/ dir = "Shrink" /\ segs[index + 1].length <= 1
    \/ dir = "Extend" /\ segs[index + 2].length <= 1

\* C8: an illegal adjustment (index out of range, index the last segment,
\* Shrink of a segment of length <= 1, Extend into a next segment of length
\* <= 1) returns the input list unchanged in every field and does not fail.
C8_IllegalAdjustIsNoOp ==
    (/\ call.op = "adjust_segment"
     /\ Illegal(call.current_segments, call.segment_index, call.direction)) =>
        (~ret.panic /\ ret.segments = call.current_segments)

\* An Extend refused because the next segment has one character (or none),
\* on a list that carries the caller's own candidates.
C8_Witness ==
    /\ call.op = "adjust_segment"
    /\ call.direction = "Extend"
    /\ call.segment_index + 1 < Len(call.current_segments)
    /\ call.current_segments[call.segment_index + 2].length <= 1
    /\ call.current_segments[1].candidates = << <<"K9">> >>
    /\ ret.segments = call.current_segments

\* C9: a legal adjust_segment on a list that partitions the reading moves
\* only the boundary between index and index+1, by one character; the other
\* segments keep start, length and reading and the count is unchanged.
C9_LegalAdjustMovesOneBoundary ==
    (/\ call.op = "adjust_segment"
     /\ IsPartition(call.current_segments, reading)
     /\ Legal(call.current_segments, call.segment_index, call.direction)) =>
        LET old == call.current_segments
            new == ret.segments
            k == call.segment_index + 1
            d == IF call.direction = "Shrink" THEN -1 ELSE 1
        IN  /\ ~ret.panic
            /\ Len(new) = Len(old)
            /\ new[k].start = old[k].start
            /\ new[k].length = old[k].length + d
            /\ new[k + 1].start = old[k + 1].start + d
            /\ new[k + 1].length = old[k + 1].length - d
            /\ \A i \in 1..Len(old) :
                  i \notin {k, k + 1} =>
                      /\ new[i].start = old[i].start
                      /\ new[i].length = old[i].length
                      /\ new[i].reading = old[i].reading

C9_Witness ==
    /\ call.op = "adjust_segment"
    /\ IsPartition(call.current_segments, reading)
    /\ Len(call.current_segments) = 3
    /\ call.segment_index = 1
    /\ call.direction = "Extend"
    /\ Legal(call.current_segments, call.segment_index, call.direction)
    /\ ret.segments[2].length = call.current_segments[2].length + 1

\* A Shrink at some index followed by an Extend at the same index has run.
RoundTripDone == IsSome(round_trip) /\ Unwrap(round_trip).done

\* C10 as stated: for every list partitioning the reading and every index,
\* Shrink at index then Extend at index restores every start and length.
C10_RoundTripAsStated ==
    (RoundTripDone /\ IsPartition(Unwrap(round_trip).from, reading)) =>
        /\ ~ret.panic
        /\ Boundaries(segments) = Boundaries(Unwrap(round_trip).from)

\* C10 amended: it does whenever the Shrink is legal.
C10_RoundTrip ==
    (/\ RoundTripDone
     /\ IsPartition(Unwrap(round_trip).from, reading)
     /\ ShrinkLegal(Unwrap(round_trip).from, Unwrap(round_trip).index)) =>
        /\ ~ret.panic
        /\ Boundaries(segments) = Boundaries(Unwrap(round_trip).from)

C10_Witness ==
    /\ RoundTripDone
    /\ IsPartition(Unwrap(round_trip).from, reading)
    /\ ShrinkLegal(Unwrap(round_trip).from, Unwrap(round_trip).index)
    /\ Len(segments) >= 2
    /\ Boundaries(segments) = Boundaries(Unwrap(round_trip).from)
    /\ Boundaries(call.current_segments) # Boundaries(segments)

\* The candidates a rebuilt segment must carry for its reading substring.
RebuiltCandidates(dictionary_, substring) ==
    IF IsSome(dictionary_)
    THEN lookup_with_fallback(Unwrap(dictionary_), substring)
    ELSE <<substring>>

\* C11: after a legal adjust_segment every output segment, the ones whose
\* boundary did not move included, carries the lookup_with_fallback of its
\* reading substring (the substring alone without a dictionary), whatever
\* candidates the input segments carried.
C11_FullRebuild ==
    (/\ call.op = "adjust_segment"
     /\ Legal(call.current_segments, call.segment_index, call.direction)
     /\ ~ret.panic) =>
        \A i \in 1..Len(ret.segments) :
            LET seg == ret.segments[i]
                substring == Slice(reading, seg.start, seg.start + seg.length)
            IN  /\ seg.reading = substring
                /\ seg.candidates = RebuiltCandidates(dictionary, substring)

\* A third segment the adjustment left in place came in with the caller's
\* candidates and leaves with the dictionary's.
C11_Witness ==
    /\ call.op = "adjust_segment"
    /\ IsSome(dictionary)
    /\ Legal(call.current_segments, call.segment_index, call.direction)
    /\ call.segment_index = 0
    /\ Len(call.current_segments) = 3
    /\ Len(ret.segments) = 3
    /\ call.current_segments[3].candidates = << <<"K9">> >>
    /\ ret.segments[3].reading = call.current_segments[3].reading
    /\ Len(ret.segments[3].candidates) >= 2


\* The response to a Convert request is ready to be written.
ConvertAnswered == pc = "write" /\ request.type = "convert"

\* What the dictionary path alone makes of the request's reading.
DictionaryResult == convert_with_segments(dictionary, request.reading)

\* C12: when the neural source returned candidates, the response candidates
\* are those, in their order, followed by the dictionary's combined
\* candidates that are not among them, in dictionary order.
C12_NeuralMerge ==
    (ConvertAnswered /\ response.type = "convert_result" /\ response.neural) =>
        LET zc == Unwrap(response.zenzai_candidates)
            dc == DictionaryResult.combined_candidates
            got == response.candidates
        IN  /\ Len(got) >= Len(zc)
            /\ SubSeq(got, 1, Len(zc)) = zc
            /\ SubSeq(got, Len(zc) + 1, Len(got))
                   = SelectSeq(dc, LAMBDA c : ~Contains(zc, c))

\* Two neural candidates, two dictionary ones, one of which is skipped.
C12_Witness ==
    /\ ConvertAnswered
    /\ response.type = "convert_result"
    /\ response.neural
    /\ Len(Unwrap(response.zenzai_candidates)) = 2
    /\ Len(DictionaryResult.combined_candidates) = 2
    /\ Len(response.candidates) = 3

Answering == pc = "write"

\* C19: the response handle_request makes for a request carries the
\* request's seq; for Convert, Commit and AdjustSegment (its invalid-direction
\* Error included) it carries the request's session_id; and its variant is
\* the one of the request kind.
C19_ResponseEchoesRequest ==
    Answering =>
        /\ response.seq = request.seq
        /\ request.type = "init" => response.type = "init_result"
        /\ request.type = "shutdown" => response.type = "shutdown_result"
        /\ request.type = "convert" =>
              /\ response.type = "convert_result"
              /\ response.session_id = request.session_id
        /\ request.type = "commit" =>
              /\ response.type = "commit_result"
              /\ response.session_id = request.session_id
        /\ request.type = "adjust_segment" =>
              /\ response.type \in {"adjust_segment_result", "error"}
              /\ response.type = "adjust_segment_result" =>
                    response.session_id = request.session_id
              /\ response.type = "error" =>
                    response.session_id = Some(request.session_id)

\* The Error for an unknown direction, for a request numbered other than 0.
C19_Witness ==
    /\ Answering
    /\ request.type = "adjust_segment"
    /\ request.direction = "sideways"
    /\ request.seq = 1
    /\ response.type = "error"
    /\ response.seq = 1

\* What a server that has answered nothing yet (no neural backend) answers.
FirstResponse(req) ==
    IF req.type = "convert"
    THEN handle_convert(dictionary, FALSE, req, [ok |-> FALSE, output |-> <<>>])
    ELSE IF req.type = "adjust_segment"
    THEN handle_adjust_segment(dictionary, req).response
    ELSE handle_commit(req)

\* The fields of a response that are part of the message.
Message(resp) ==
    IF resp.type = "convert_result"
    THEN [type |-> resp.type, seq |-> resp.seq, session_id |-> resp.session_id,
          candidates |-> resp.candidates, segments |-> resp.segments]
    ELSE resp

\* C20: as long as no Init carried a neural config, the answer to a Convert,
\* an AdjustSegment or a Commit is the one a fresh server gives, whatever
\* requests were answered before; Commit answers success = true.
C20_NoStateBetweenRequests ==
    (/\ Answering
     /\ past # "neural"
     /\ request.type \in {"convert", "adjust_segment", "commit"}) =>
        /\ Message(response) = Message(FirstResponse(request))
        /\ request.type = "commit" => response.success
        /\ zenzai = None

\* A Convert answered after other requests, in a build that has the feature.
C20_Witness ==
    /\ Answering
    /\ past = "plain"
    /\ zenzai_feature
    /\ request.type = "convert"
    /\ Len(response.candidates) = 2
    /\ Len(response.segments) >= 2


\* C16: no error for structurally valid input: convert_with_segments returns
\* a result for every reading, adjust_segment returns a list for every list
\* that partitions the reading, every index and both directions, and a
\* position where no dictionary key starts becomes a one-character segment.
C16_NoErrorOnValidInput ==
    /\ call.op = "convert_with_segments" =>
          /\ ~ret.panic
          /\ reading # <<>> => ConcatReadings(ret.segments) = reading
          /\ IsSome(dictionary) =>
                \A i \in 1..Len(ret.segments) :
                    LET seg == ret.segments[i]
                    IN  KeyEnds(Unwrap(dictionary), reading, seg.start) = {} =>
                            /\ seg.length = 1
                            /\ seg.reading = <<reading[seg.start + 1]>>
                            /\ seg.candidates = <<seg.reading>>
    /\ (/\ call.op = "adjust_segment"
        /\ IsPartition(call.current_segments, reading)) =>
          /\ ~ret.panic
          /\ \A i \in 1..Len(ret.segments) :
                ret.segments[i].start + ret.segments[i].length <= Len(reading)

\* A legal Extend at the last boundary of a three-segment partition returned.
C16_Witness ==
    /\ call.op = "adjust_segment"
    /\ IsPartition(call.current_segments, reading)
    /\ Len(call.current_segments) = 3
    /\ call.segment_index = 1
    /\ call.direction = "Extend"
    /\ ~ret.panic
    /\ ret.segments[3].length = call.current_segments[3].length - 1
    /\ \E i \in 1..Len(ret.segments) :
          ret.segments[i].candidates = <<ret.segments[i].reading>>


\* The okuri-nasi candidates of r, none without an entry.
NasiCandidates(dict, r) ==
    IF r \in DOMAIN dict.okuri_nasi THEN dict.okuri_nasi[r] ELSE <<>>

\* The full forms (kanji stem + last character) the okuri-ari table gives
\* for r, in the table's order; none when r has fewer than 2 characters, its
\* last character has no okuri symbol or stem + symbol has no entry.
FullForms(dict, r) ==
    IF Len(r) < 2 \/ hiragana_to_okuri_symbol(r[Len(r)]) = None THEN <<>>
    ELSE LET key == Append(SubSeq(r, 1, Len(r) - 1),
                           Unwrap(hiragana_to_okuri_symbol(r[Len(r)])))
         IN  IF key \notin DOMAIN dict.okuri_ari THEN <<>>
             ELSE [i \in 1..Len(dict.okuri_ari[key]) |->
                      Append(dict.okuri_ari[key][i], r[Len(r)])]

\* The indices of the full forms that are new: not an okuri-nasi candidate
\* and not an earlier full form.
NewForms(nasi, forms) ==
    {i \in 1..Len(forms) :
        /\ ~Contains(nasi, forms[i])
        /\ \A j \in 1..(i - 1) : forms[j] # forms[i]}

\* C15: lookup_combined returns the okuri-nasi candidates, then the new full
\* forms in order, then the reading if it is non-empty and not yet present;
\* a non-empty reading is always in the result, and a one-character reading
\* without okuri-nasi entry gives exactly [reading].
C15_LookupCombined ==
    call.op = "lookup_combined" =>
        LET dict == Unwrap(dictionary)
            nasi == NasiCandidates(dict, reading)
            forms == FullForms(dict, reading)
            new == NewForms(nasi, forms)
            got == ret.candidates
            n == Len(nasi)
            k == Cardinality(new)
            middle == SubSeq(got, n + 1, n + k)
            fallback == reading # <<>> /\ ~Contains(nasi, reading)
                                       /\ ~Contains(forms, reading)
        IN  /\ Len(got) = n + k + (IF fallback THEN 1 ELSE 0)
            /\ SubSeq(got, 1, n) = nasi
            /\ \A i \in new : Contains(middle, forms[i])
            /\ \A i \in new, j \in new :
                  i < j => \E a \in 1..k, b \in 1..k :
                              a < b /\ middle[a] = forms[i] /\ middle[b] = forms[j]
            /\ fallback => got[Len(got)] = reading
            /\ reading # <<>> => Contains(got, reading)
            /\ (Len(reading) = 1 /\ nasi = <<>>) => got = <<reading>>

\* "kaku" with both tables: a full form the okuri-nasi entry already has and
\* a stem listed twice are skipped, a new form is added, the reading is
\* already there.
C15_Witness ==
    /\ call.op = "lookup_combined"
    /\ reading = <<"ka", "ku">>
    /\ ret.candidates =
          << <<"K2">>, <<"ka", "ku">>, <<"K1", "ku">>, <<"K5", "ku">> >>


\* Every message read so far is the message written at the same place.
ReadBackInOrder ==
    /\ Len(received) <= Len(sent)
    /\ received = SubSeq(sent, 1, Len(received))

\* No read failed, and the stream ended only after every message was read.
NothingLost ==
    /\ last_read.kind # "err"
    /\ last_read.kind = "eof" => received = sent

\* C17 as stated: every message string written with write_message is read
\* back by read_message, one at a time, in order, nothing lost or merged.
C17_FramingRoundTripAsStated == ReadBackInOrder /\ NothingLost

\* The encoded size of a message
ByteSize(msg) == UnitCount(as_bytes(msg))

\* C17 amended: so it is for message strings of at most MAX_MESSAGE_SIZE
\* bytes.
C17_FramingRoundTrip ==
    (\A i \in 1..Len(sent) : ByteSize(sent[i]) <= MAX_MESSAGE_SIZE) =>
        (ReadBackInOrder /\ NothingLost)

\* Two messages were written, one of them with three-byte characters, both
\* were read and the end of the stream was reported after them.
C17_Witness ==
    /\ Len(sent) = 2
    /\ sent[1] # sent[2]
    /\ \E i \in 1..2 : ByteSize(sent[i]) > UnitCount(sent[i])
    /\ \E i \in 1..2 : ByteSize(sent[i]) = MAX_MESSAGE_SIZE
    /\ received = sent
    /\ last_read.kind = "eof"

\* C18: read_message rejects a length prefix above MAX_MESSAGE_SIZE with
\* InvalidData before it reads the body (only the four bytes of the prefix
\* are consumed), and answers Ok(None), not an error, when the input ends
\* before a whole length prefix was read.
C18_ReadLimits ==
    last_read.kind # "none" =>
        /\ (IsSome(last_read.len) /\ Unwrap(last_read.len) > MAX_MESSAGE_SIZE) =>
              /\ last_read.kind = "err"
              /\ last_read.error = "InvalidData"
              /\ last_read.consumed = 4
        /\ last_read.available < 4 => last_read.kind = "eof"
        /\ last_read.kind = "eof" => last_read.len = None

\* A prefix of MAX_MESSAGE_SIZE + 1 was rejected with bytes left unread.
C18_Witness ==
    /\ last_read.kind = "err"
    /\ last_read.error = "InvalidData"
    /\ last_read.len = Some(MAX_MESSAGE_SIZE + 1)
    /\ last_read.available > 4
    /\ last_read.consumed = 4

\* The stream ended within a length prefix.
C18_WitnessEof ==
    /\ last_read.kind = "eof"
    /\ last_read.available = 3


\* ---------------------------------------------------------------------- C21
\* What the last Converter call returns when the dictionary's okuri-ari
\* table is Restrict(AriPool, T) and its okuri-nasi table is unchanged
SameCallWith(T) ==
    LET other == Some(WithOkuriAri(Unwrap(dictionary), T))
    IN  IF call.op = "segment_with_info"
        THEN [panic |-> FALSE, segments |-> segment_with_info(other, reading)]
        ELSE IF call.op = "convert_with_segments"
        THEN LET result == convert_with_segments(other, reading)
             IN  [panic |-> FALSE, segments |-> result.segments,
                  combined_candidates |-> result.combined_candidates]
        ELSE adjust_segment(other, reading, call.current_segments,
                            call.segment_index, call.direction)

\* C21: segmentation does not depend on the okuri-ari entries. Whatever
\* segment_with_info, convert_with_segments or adjust_segment returned (the
\* segments with their candidates, the combined candidates), the same call
\* returns the same from every dictionary that has the same okuri-nasi table
\* and another okuri-ari table.
C21_OkuriAriIndependence ==
    (IsSome(dictionary) /\ call.op # "new") =>
        \A T \in SUBSET (DOMAIN AriPool) : ret = SameCallWith(T)

\* A two-character span whose stem and okuri the okuri-ari table has and the
\* okuri-nasi table has not was segmented character by character.
C21_Witness ==
    /\ IsSome(dictionary)
    /\ call.op = "convert_with_segments"
    /\ Len(reading) >= 2
    /\ <<"ka", "k">> \in DOMAIN Unwrap(dictionary).okuri_ari
    /\ SubSeq(reading, 1, 2) \notin DOMAIN Unwrap(dictionary).okuri_nasi
    /\ SubSeq(reading, 1, 2) = <<"ka", "ku">>
    /\ Len(ret.segments) >= 2
    /\ ret.segments[1].length = 1




\* ---------------------------------------------------------------------- C22
\* The loop of main is between two messages, or has ended
BetweenMessages == pc \in {"read", "done", "failed", "panicked"}

\* The response type that answers a request type
ResultType(type) ==
    IF type = "init" THEN "init_result"
    ELSE IF type = "convert" THEN "convert_result"
    ELSE IF type = "commit" THEN "commit_result"
    ELSE IF type = "shutdown" THEN "shutdown_result"
    ELSE "adjust_segment_result"

\* resp is a response to the message msg: to a request, its result or an
\* Error with its seq; to a message that is no request, an Error
AnswerTo(resp, msg) ==
    LET parsed == from_str_request(msg)
    IN  IF IsSome(parsed)
        THEN /\ resp.seq = Unwrap(parsed).seq
             /\ resp.type \in {ResultType(Unwrap(parsed).type), "error"}
        ELSE resp.type = "error"

\* The responses written so far answer the first messages read, in order
AnsweredInOrder ==
    /\ Len(stdout) <= Len(served)
    /\ \A i \in 1..Len(stdout) : AnswerTo(stdout[i], served[i])

\* C22: request-at-a-time serving. Every message read has exactly one
\* response written before the next message is read or the loop ends, the
\* responses are in the order of the messages, and a message that is not a
\* request is answered with an Error and the loop reads on.
C22_OneResponsePerMessage ==
    /\ AnsweredInOrder
    /\ BetweenMessages => Len(stdout) = Len(served)
    /\ ~BetweenMessages => Len(stdout) = Len(served) - 1
    /\ (pc = "write" /\ request.type = "none") => response.type = "error"


\* ---------------------------------------------------------------------- C23
\* The positions in served of the Shutdown requests
ShutdownsServed ==
    {i \in 1..Len(served) :
        /\ IsSome(from_str_request(served[i]))
        /\ Unwrap(from_str_request(served[i])).type = "shutdown"}

ShutdownOrder ==
    /\ \A i \in ShutdownsServed :
          /\ i = Len(served)
          /\ pc \in {"handle", "write", "done"}
          /\ pc = "done" =>
                /\ Len(stdout) = i
                /\ stdout[i] = [type |-> "shutdown_result",
                                seq |-> Unwrap(from_str_request(served[i])).seq]
    /\ \A j \in 1..Len(stdout) :
          stdout[j].type = "shutdown_result" => j \in ShutdownsServed
    /\ (pc = "done" /\ ShutdownsServed = {}) =>
          /\ stdin = <<>>
          /\ stdin_end = "eof"
          /\ Len(stdout) = Len(served)

\* C23: shutdown ordering. A Shutdown request is the last message read; the
\* loop ends once its ShutdownResult, the only one written and with the
\* request's seq, is the last response; at end of input the loop ends with
\* one response per message read and none more; once it has ended, nothing
\* is read or written.
C23_ShutdownOrdering == [](ShutdownOrder) /\ [][pc # "done"]_vars

\* The loop ended on a Shutdown with a message left unread behind it.
C23_Witness ==
    /\ pc = "done"
    /\ ShutdownsServed # {}
    /\ stdin # <<>>
    /\ stdout # <<>>


\* ---------------------------------------------------------------------- C24
\* handle_request has returned for an AdjustSegment request
AdjustAnswered == pc = "write" /\ request.type = "adjust_segment"

C24_WitnessIllegal ==
    /\ AdjustAnswered
    /\ request.direction = "shrink"
    /\ request.segment_index < Len(request.segments)
    /\ ~can_adjust(request.segments, request.segment_index, "Shrink")
    /\ response.type = "adjust_segment_result"
    /\ response.segments = request.segments


\* ---------------------------------------------------------------------- C25
\* The Error for a message that did not parse is about to be written
ParseFailureAnswered == pc = "write" /\ request.type = "none"

\* C25: the Error response to a message that fails to parse as a Request
\* carries the seq extract_seq finds in the message (its top-level
\* unsigned-integer "seq" when the message is JSON and has one).
C25_ParseErrorCarriesSeq ==
    ParseFailureAnswered =>
        LET found == extract_seq(served[Len(served)])
        IN  IsSome(found) => response.seq = Unwrap(found)


\* ---------------------------------------------------------------------- C26
\* C26: adjustment keeps the number of segments. From a list that partitions
\* the reading with every length >= 1 (every list of this specification is
\* one, C2), each adjust_segment call of a sequence returns a list with as
\* many segments, none empty and none dropped, and with the segments other
\* than the adjusted one and its successor where they were: none merged,
\* none split.
C26_SegmentCountInvariant ==
    (call.op = "adjust_segment" /\ IsPartition(call.current_segments, reading)) =>
        /\ ~ret.panic
        /\ Len(ret.segments) = Len(call.current_segments)
        /\ \A i \in 1..Len(ret.segments) :
              /\ ret.segments[i].length >= 1
              /\ i \notin {call.segment_index + 1, call.segment_index + 2} =>
                    /\ ret.segments[i].start = call.current_segments[i].start
                    /\ ret.segments[i].length = call.current_segments[i].length

\* The second call of a sequence (an Extend that follows a Shrink) moved a
\* boundary of a three-segment list next to a one-character segment.
C26_Witness ==
    /\ call.op = "adjust_segment"
    /\ RoundTripDone
    /\ Len(call.current_segments) = 3
    /\ ret.segments # call.current_segments
    /\ \E i \in 1..3 : ret.segments[i].length = 1


\* ---------------------------------------------------------------------- C27
\* C27: adjust_segment returns, without panicking, for every caller-supplied
\* segment list (lengths that sum to more or to less than the reading has,
\* zero lengths), and every segment it returns lies within the reading.
C27_AdjustNeverPanics ==
    call.op = "adjust_segment" =>
        /\ ~ret.panic
        /\ \A i \in 1..Len(ret.segments) :
              ret.segments[i].start + ret.segments[i].length <= Len(reading)


\* ---------------------------------------------------------------------- C28
\* C28: a Convert uses the neural source only if the last Init that carried
\* a neural config reported zenzai_enabled = true; after an InitResult with
\* zenzai_enabled = false every Convert returns the dictionary's candidates
\* only, until an InitResult reports true.
C28_NeuralOnlyWhileReportedEnabled ==
    ConvertAnswered =>
        /\ response.neural => reported = Some(TRUE)
        /\ reported # Some(TRUE) =>
              response.candidates = DictionaryResult.combined_candidates


\* ---------------------------------------------------------------------- C29
NoDuplicates(list) ==
    \A i, j \in 1..Len(list) : list[i] = list[j] => i = j

\* C29: the candidates of a ConvertResult hold no string twice, on the
\* dictionary path and when neural candidates are merged in.
C29_NoDuplicateCandidates ==
    ConvertAnswered => NoDuplicates(response.candidates)


\* ---------------------------------------------------------------------- C30
\* The okuri-nasi entry of a reading in the Converter's dictionary, if any
EntryOf(r) ==
    IF IsSome(dictionary) /\ r \in DOMAIN Unwrap(dictionary).okuri_nasi
    THEN Some(Unwrap(dictionary).okuri_nasi[r])
    ELSE None

\* The candidates of a segment are as specified: not empty, the segment's
\* reading among them; the dictionary entry in its order, the reading after
\* it only if the entry lacks it; the reading alone where there is no entry
CandidatesAsSpecified(seg) ==
    LET entry == EntryOf(seg.reading)
    IN  /\ seg.candidates # <<>>
        /\ Contains(seg.candidates, seg.reading)
        /\ IF IsSome(entry)
           THEN /\ SubSeq(seg.candidates, 1, Len(Unwrap(entry))) = Unwrap(entry)
                /\ IF Contains(Unwrap(entry), seg.reading)
                   THEN Len(seg.candidates) = Len(Unwrap(entry))
                   ELSE /\ Len(seg.candidates) = Len(Unwrap(entry)) + 1
                        /\ seg.candidates[Len(seg.candidates)] = seg.reading
           ELSE seg.candidates = <<seg.reading>>

\* C30: every segment convert_with_segments or a legal adjust_segment
\* returns has candidates that are not empty and hold the segment's reading:
\* a matched span's dictionary entry in order with the reading last only if
\* the entry lacks it, an unmatched span's reading alone; and
\* lookup_with_fallback of a reading without entry, the empty one included,
\* is that reading alone.
C30_CandidatesHoldReading ==
    /\ (\/ call.op = "convert_with_segments"
         \/ /\ call.op = "adjust_segment"
            /\ Legal(call.current_segments, call.segment_index, call.direction)
            /\ ~ret.panic) =>
          \A i \in 1..Len(ret.segments) : CandidatesAsSpecified(ret.segments[i])
    /\ IsSome(dictionary) =>
          \A r \in {<<>>, reading} :
              r \notin DOMAIN Unwrap(dictionary).okuri_nasi =>
                  lookup_with_fallback(Unwrap(dictionary), r) = <<r>>

\* A conversion returned a matched span whose entry lacks the reading, which
\* comes last, and an unmatched span after it.
C30_Witness ==
    /\ call.op = "convert_with_segments"
    /\ Len(ret.segments) = 2
    /\ ret.segments[1].reading = <<"ka", "ku", "ka">>
    /\ ret.segments[1].candidates = << <<"K4">>, <<"K2", "K1">>, <<"ka", "ku", "ka">> >>
    /\ ret.segments[2].candidates = << ret.segments[2].reading >>
    /\ EntryOf(ret.segments[2].reading) = None

\* A legal adjustment returned a matched span whose entry holds the reading
\* in the middle.
C30_WitnessAdjust ==
    /\ call.op = "adjust_segment"
    /\ Legal(call.current_segments, call.segment_index, call.direction)
    /\ \E i \in 1..Len(ret.segments) :
          /\ ret.segments[i].reading = <<"ka", "ku">>
          /\ ret.segments[i].candidates =
                << <<"K2">>, <<"ka", "ku">>, <<"K1", "ku">> >>

====
